---- MODULE Spec2Model ----
(***************************************************************************)
(* The kqueue poller of sonic (internal/poll_bsd.go) and the IO facade     *)
(* that drives it (sonic.IO: Run, RunOne, RunPending, PollOne).            *)
(*                                                                         *)
(* One poller thread P calls the slot API, Poll and the IO loops; other    *)
(* threads call Post and Close.  Accesses to poller.pending outside the    *)
(* mutex are modelled as a load followed by a store, so that the outcomes  *)
(* of the unsynchronised accesses are all present in the model.            *)
(*                                                                         *)
(* The WebSocket client stream (codec/websocket): handshake, read and      *)
(* write pipelines, control-frame replies and the close handshake, over a  *)
(* frame codec that works on bytes.  A program makes one stream call at a  *)
(* time; the peer sends the frames of a script.                            *)
(***************************************************************************)
EXTENDS Integers, Sequences, FiniteSets, TLC

\* ---------------------------------------------------------------- bounds
\* Post calls made over a run.
MaxPosts == 2
\* Entries the change list may hold before the next Poll flushes it.
MaxChanges == 2

\* ------------------------------------------------------- program constants
PollerReadEvent == 1
PollerWriteEvent == 2

Slots == {"a", "b"}
WakerSlot == "waker"
AllSlots == Slots \cup {WakerSlot}

PollerThread == "P"
Producers == {"t1", "t2"}
Threads == {PollerThread} \cup Producers

\* ioc.timeoutMs as given to NewIO: negative (no timespec) or non-negative.
TimeoutValues == {-1, 1}

\* ------------------------------------------------------------- bit masks
RECURSIVE BitAnd(_, _)
BitAnd(x, y) ==
    IF x = 0 \/ y = 0 THEN 0
    ELSE (x % 2) * (y % 2) + 2 * BitAnd(x \div 2, y \div 2)

RECURSIVE BitOr(_, _)
BitOr(x, y) ==
    IF x = 0 THEN y
    ELSE IF y = 0 THEN x
    ELSE (IF (x % 2) + (y % 2) > 0 THEN 1 ELSE 0) + 2 * BitOr(x \div 2, y \div 2)

RECURSIVE BitXor(_, _)
BitXor(x, y) ==
    IF x = 0 THEN y
    ELSE IF y = 0 THEN x
    ELSE (((x % 2) + (y % 2)) % 2) + 2 * BitXor(x \div 2, y \div 2)

\* ----------------------------------------------------------------- state
VARIABLES
    masks,        \* slot.Events of every slot, the waker's included
    changes,      \* poller.changes
    kreg,         \* the knotes the kqueue holds: [slot, filter, oneshot]
    wakerBytes,   \* bytes in the waker pipe
    posts,        \* poller.posts (handler ids)
    postIdx,      \* handlers of posts the range loop of executePost has run
    pending,      \* poller.pending
    lck,          \* holder of poller.lck, or "free"
    closed,       \* poller.closed
    wakerOpen,    \* the waker pipe's fds are open
    fdOpen,       \* the kqueue fd is open
    wakerCloses,  \* times waker.Close ran
    fdCloses,     \* times syscall.Close(p.fd) ran
    pc,           \* position of the poller thread
    preg,         \* pending as loaded by the poller thread in Poll's dispatch
    events,       \* p.events[0:n] of the Poll in progress
    i,            \* index of the dispatch loop (1-based)
    pollTimeout,  \* timeoutMs of the Poll in progress
    pollErr,      \* what the last Poll returned
    mode,         \* the IO call the poller thread is in
    ioErr,        \* what the last IO call returned
    timeoutMs,    \* ioc.timeoutMs
    call,         \* per thread: the poller call in progress
    postErr,      \* what the last Post to return returned
    closeErr,     \* what the last Close to return returned
    nextId,       \* id of the next handler posted
    poster,       \* handler id -> thread that posted it
    executed,     \* posted handlers in the order they ran
    invoked,      \* handler invocations of the Poll in progress, in order
    owed          \* handlers whose Post had returned when the Poll in progress began

\* The WebSocket stream (codec/websocket) and the program that uses it.
VARIABLES
    ws,           \* the stream: [state, src, pending, frag]
    mock,         \* mock.b: the bytes the stream wrote to the underlying stream
    peer,         \* frames the peer has yet to send on this connection
    wire,         \* frames of the peer whose bytes are in ws.src, in order
    rd,           \* the read call in progress
    hs,           \* the url of the AsyncHandshake in progress, or "none"
    res,          \* how the last stream call completed
    ccb,          \* what the control callback saw when it last ran
    rcvd,         \* data frames received since the last completed message
    replies,      \* the frames of ws.pending as they were before masking
    sent,         \* the frames whose bytes are in mock, as they were before masking
    conns,        \* handshakes started
    script,       \* the frames the peer sends on a connection
    reader        \* the read API the program uses

pollerVars == <<masks, changes, kreg, wakerBytes, posts, postIdx, pending, lck,
                closed, wakerOpen, fdOpen, wakerCloses, fdCloses, pc, preg, events, i,
                pollTimeout, pollErr, mode, ioErr, timeoutMs, call, postErr, closeErr, nextId,
                poster, executed, invoked, owed>>

wsVars == <<ws, mock, peer, wire, rd, hs, res, ccb, rcvd, replies, sent, conns, script,
           reader>>

vars == <<pollerVars, wsVars>>

NoCall == [name |-> "none", slot |-> "none", ev |-> 0, h |-> 0, reg |-> 0, next |-> "none"]

\* createEvent: the kevent_t of a change (flags, filter, udata).
createEvent(flags, filter, slot) ==
    [flags |-> flags, filter |-> filter, slot |-> slot]

\* NewIO and NewPoller: the waker is read-registered with EV_ADD and its
\* pending++ undone.
NewIO ==
    /\ masks = [s \in AllSlots |-> IF s = WakerSlot THEN PollerReadEvent ELSE 0]
    /\ changes = <<createEvent("ADD", -PollerReadEvent, WakerSlot)>>
    /\ kreg = {}
    /\ wakerBytes = 0
    /\ posts = <<>>
    /\ postIdx = 0
    /\ pending = 0
    /\ lck = "free"
    /\ closed = 0
    /\ wakerOpen = TRUE
    /\ fdOpen = TRUE
    /\ wakerCloses = 0
    /\ fdCloses = 0
    /\ pc = "idle"
    /\ preg = 0
    /\ events = <<>>
    /\ i = 1
    /\ pollTimeout = -1
    /\ pollErr = "nil"
    /\ mode = "none"
    /\ ioErr = "nil"
    /\ timeoutMs \in TimeoutValues
    /\ call = [t \in Threads |-> NoCall]
    /\ postErr = "nil"
    /\ closeErr = "nil"
    /\ nextId = 1
    /\ poster = <<>>
    /\ executed = <<>>
    /\ invoked = <<>>
    /\ owed = {}

\* The states of a stream.
StateHandshake == "Handshake"
StateActive == "Active"
StateClosedByUs == "ClosedByUs"
StateClosedByPeer == "ClosedByPeer"
StateCloseAcked == "CloseAcked"
StateTerminated == "Terminated"

\* A value no opcode has: the message type of a read that delivered nothing.
TypeNone == 255

NoRead == [name |-> "none", async |-> FALSE, step |-> "none", b |-> <<>>, n |-> 0,
           mt |-> TypeNone, f |-> <<>>]
NoResult == [op |-> "none", async |-> FALSE, err |-> "nil", n |-> 0, mt |-> TypeNone,
             b |-> <<>>, f |-> <<>>, state |-> StateHandshake, pending |-> <<>>,
             since |-> <<>>]
NoCallback == [ran |-> FALSE, mt |-> TypeNone, payload |-> <<>>, pending |-> <<>>,
               state |-> StateHandshake]

\* NewWebsocketStream: a stream in Handshake, nothing read, written or pending.
\* s is what the peer will send on a connection, r the read API of the program.
NewWebsocketStream(s, r) ==
    /\ ws = [state |-> StateHandshake, src |-> <<>>, pending |-> <<>>, frag |-> TypeNone]
    /\ mock = <<>>
    /\ peer = <<>>
    /\ wire = <<>>
    /\ rd = NoRead
    /\ hs = "none"
    /\ res = NoResult
    /\ ccb = NoCallback
    /\ rcvd = <<>>
    /\ replies = <<>>
    /\ sent = <<>>
    /\ conns = 0
    /\ script = s
    /\ reader = r

\* A program that drives the poller and has no stream traffic.
Init == NewIO /\ NewWebsocketStream(<<>>, "NextMessage")

\* ------------------------------------------------------------- slot API
\* The poller thread may call into the poller between IO calls and from
\* inside a handler it is running.
CanCall ==
    /\ call[PollerThread].name = "none"
    /\ \/ pc = "idle" /\ mode = "none"
       \/ pc \in {"handler", "posthandler"}

Armed(s, ev) == BitAnd(masks[s], ev) = ev

Begin(name, s, ev, next) ==
    [name |-> name, slot |-> s, ev |-> ev, h |-> 0, reg |-> pending, next |-> next]

\* poller.set: append the change.
set(ev) == Append(changes, ev)

\* SetRead -> setRead is called; p.pending as the call may load it.
SetRead(s) ==
    /\ CanCall
    /\ Len(changes) < MaxChanges
    /\ call' = [call EXCEPT ![PollerThread] =
                   Begin("setRead", s, PollerReadEvent, "none")]
    /\ UNCHANGED <<masks, changes, kreg, wakerBytes, posts, postIdx,
                   pending, lck, closed, wakerOpen, fdOpen, wakerCloses,
                   fdCloses, pc, preg, events, i, pollTimeout, pollErr,
                   mode, ioErr, timeoutMs, postErr, closeErr, nextId, poster, executed,
                   invoked, owed>>
    /\ UNCHANGED wsVars

SetWrite(s) ==
    /\ CanCall
    /\ Len(changes) < MaxChanges
    /\ call' = [call EXCEPT ![PollerThread] =
                   Begin("SetWrite", s, PollerWriteEvent, "none")]
    /\ UNCHANGED <<masks, changes, kreg, wakerBytes, posts, postIdx,
                   pending, lck, closed, wakerOpen, fdOpen, wakerCloses,
                   fdCloses, pc, preg, events, i, pollTimeout, pollErr,
                   mode, ioErr, timeoutMs, postErr, closeErr, nextId, poster, executed,
                   invoked, owed>>
    /\ UNCHANGED wsVars

\* setRead / SetWrite without the test of the mask.
SetStoreNoTest ==
    LET c == call[PollerThread] IN
    /\ c.name \in {"setRead", "SetWrite"}
    /\ pending' = c.reg + 1
    /\ masks' = [masks EXCEPT ![c.slot] = BitOr(@, c.ev)]
    /\ changes' = set(createEvent("ADD_ONESHOT", -c.ev, c.slot))
    /\ call' = [call EXCEPT ![PollerThread] = NoCall]
    /\ UNCHANGED <<kreg, wakerBytes, posts, postIdx, lck, closed, wakerOpen,
                   fdOpen, wakerCloses, fdCloses, pc, preg, events, i, pollTimeout,
                   pollErr, mode, ioErr, timeoutMs, postErr, closeErr, nextId, poster, executed,
                   invoked, owed>>
    /\ UNCHANGED wsVars

\* setRead / SetWrite return: with the bit clear, the store of p.pending++,
\* *events |= ev and p.set(...); with the bit set, nothing.
SetStore ==
    LET c == call[PollerThread] IN
    /\ c.name \in {"setRead", "SetWrite"}
    /\ IF ~Armed(c.slot, c.ev)
       THEN /\ pending' = c.reg + 1
            /\ masks' = [masks EXCEPT ![c.slot] = BitOr(@, c.ev)]
            /\ changes' = set(createEvent("ADD_ONESHOT", -c.ev, c.slot))
       ELSE UNCHANGED <<pending, masks, changes>>
    /\ call' = [call EXCEPT ![PollerThread] = NoCall]
    /\ UNCHANGED <<kreg, wakerBytes, posts, postIdx, lck, closed, wakerOpen,
                   fdOpen, wakerCloses, fdCloses, pc, preg, events, i, pollTimeout,
                   pollErr, mode, ioErr, timeoutMs, postErr, closeErr, nextId, poster, executed,
                   invoked, owed>>
    /\ UNCHANGED wsVars

\* DelRead / DelWrite: the test of the mask and the load of p.pending--.
DelRead(s) ==
    /\ CanCall
    /\ Len(changes) < MaxChanges
    /\ IF Armed(s, PollerReadEvent)
       THEN /\ call' = [call EXCEPT ![PollerThread] =
                            Begin("DelRead", s, PollerReadEvent, "none")]
            /\ UNCHANGED <<masks, changes, kreg, wakerBytes, posts, postIdx,
                           pending, lck, closed, wakerOpen, fdOpen, wakerCloses,
                           fdCloses, pc, preg, events, i, pollTimeout, pollErr,
                           mode, ioErr, timeoutMs, postErr, closeErr, nextId, poster, executed,
                           invoked, owed>>
       ELSE UNCHANGED vars
    /\ UNCHANGED wsVars

DelWrite(s) ==
    /\ CanCall
    /\ Len(changes) < MaxChanges
    /\ IF Armed(s, PollerWriteEvent)
       THEN /\ call' = [call EXCEPT ![PollerThread] =
                            Begin("DelWrite", s, PollerWriteEvent, "none")]
            /\ UNCHANGED <<masks, changes, kreg, wakerBytes, posts, postIdx,
                           pending, lck, closed, wakerOpen, fdOpen, wakerCloses,
                           fdCloses, pc, preg, events, i, pollTimeout, pollErr,
                           mode, ioErr, timeoutMs, postErr, closeErr, nextId, poster, executed,
                           invoked, owed>>
       ELSE UNCHANGED vars
    /\ UNCHANGED wsVars

\* Del: DelRead, then (its error being nil) DelWrite.
Del(s) ==
    /\ CanCall
    /\ Len(changes) + 1 < MaxChanges
    /\ call' = [call EXCEPT ![PollerThread] =
                   IF Armed(s, PollerReadEvent)
                   THEN Begin("DelRead", s, PollerReadEvent, "DelWrite")
                   ELSE IF Armed(s, PollerWriteEvent)
                   THEN Begin("DelWrite", s, PollerWriteEvent, "none")
                   ELSE NoCall]
    /\ UNCHANGED <<masks, changes, kreg, wakerBytes, posts, postIdx,
                   pending, lck, closed, wakerOpen, fdOpen, wakerCloses,
                   fdCloses, pc, preg, events, i, pollTimeout, pollErr,
                   mode, ioErr, timeoutMs, postErr, closeErr, nextId, poster, executed,
                   invoked, owed>>
    /\ UNCHANGED wsVars

\* The store of p.pending--, *events ^= ev and p.set(EV_DELETE) of DelRead/DelWrite.
DelStore ==
    LET c == call[PollerThread] IN
    /\ c.name \in {"DelRead", "DelWrite"}
    /\ pending' = c.reg - 1
    /\ masks' = [masks EXCEPT ![c.slot] = BitXor(@, c.ev)]
    /\ changes' = set(createEvent("DELETE", -c.ev, c.slot))
    /\ call' = [call EXCEPT ![PollerThread] =
                   IF c.next = "DelWrite"
                   THEN [NoCall EXCEPT !.name = "Del", !.slot = c.slot]
                   ELSE NoCall]
    /\ UNCHANGED <<kreg, wakerBytes, posts, postIdx, lck, closed, wakerOpen,
                   fdOpen, wakerCloses, fdCloses, pc, preg, events, i, pollTimeout,
                   pollErr, mode, ioErr, timeoutMs, postErr, closeErr, nextId, poster, executed,
                   invoked, owed>>
    /\ UNCHANGED wsVars

\* Del, after DelRead returned nil: the DelWrite it ends with.
DelThenWrite ==
    LET c == call[PollerThread] IN
    /\ c.name = "Del"
    /\ call' = [call EXCEPT ![PollerThread] =
                   IF Armed(c.slot, PollerWriteEvent)
                   THEN Begin("DelWrite", c.slot, PollerWriteEvent, "none")
                   ELSE NoCall]
    /\ UNCHANGED <<masks, changes, kreg, wakerBytes, posts, postIdx,
                   pending, lck, closed, wakerOpen, fdOpen, wakerCloses,
                   fdCloses, pc, preg, events, i, pollTimeout, pollErr,
                   mode, ioErr, timeoutMs, postErr, closeErr, nextId, poster, executed,
                   invoked, owed>>
    /\ UNCHANGED wsVars

\* ------------------------------------------------------------ Post, Close
ThreadCanCall(t) ==
    IF t = PollerThread THEN CanCall ELSE call[t].name = "none"

\* Post, lines 139-141: Lock, append, and the load of p.pending++.
PostLock(t) ==
    /\ ThreadCanCall(t)
    /\ nextId <= MaxPosts
    /\ lck = "free"
    /\ lck' = t
    /\ posts' = Append(posts, nextId)
    /\ poster' = Append(poster, t)
    /\ nextId' = nextId + 1
    /\ call' = [call EXCEPT ![t] =
                   [NoCall EXCEPT !.name = "PostStore", !.h = nextId, !.reg = pending]]
    /\ UNCHANGED <<masks, changes, kreg, wakerBytes, postIdx, pending, closed,
                   wakerOpen, fdOpen, wakerCloses, fdCloses, pc, preg, events, i,
                   pollTimeout, pollErr, mode, ioErr, timeoutMs, postErr, closeErr, executed,
                   invoked, owed>>
    /\ UNCHANGED wsVars

\* Post, lines 141-142: the store of p.pending++, Unlock.
PostStore(t) ==
    /\ call[t].name = "PostStore"
    /\ pending' = call[t].reg + 1
    /\ lck' = "free"
    /\ call' = [call EXCEPT ![t] = [@ EXCEPT !.name = "PostWake", !.reg = 0]]
    /\ UNCHANGED <<masks, changes, kreg, wakerBytes, posts, postIdx, closed,
                   wakerOpen, fdOpen, wakerCloses, fdCloses, pc, preg, events, i,
                   pollTimeout, pollErr, mode, ioErr, timeoutMs, postErr, closeErr, nextId, poster,
                   executed, invoked, owed>>
    /\ UNCHANGED wsVars

\* Post without the write to the waker pipe of line 146.
PostWakeLost(t) ==
    /\ call[t].name = "PostWake"
    /\ wakerBytes' = wakerBytes
    /\ postErr' = "nil"
    /\ call' = [call EXCEPT ![t] = NoCall]
    /\ UNCHANGED <<closeErr, masks, changes, kreg, posts, postIdx, pending, lck, closed,
                   wakerOpen, fdOpen, wakerCloses, fdCloses, pc, preg, events, i,
                   pollTimeout, pollErr, mode, ioErr, timeoutMs, nextId, poster,
                   executed, invoked, owed>>
    /\ UNCHANGED wsVars

\* Post undoing the append and the increment when the waker write fails.
PostWakeRollback(t) ==
    /\ call[t].name = "PostWake"
    /\ IF wakerOpen
       THEN /\ wakerBytes' = wakerBytes + 1
            /\ postErr' = "nil"
            /\ UNCHANGED <<posts, pending>>
       ELSE /\ wakerBytes' = wakerBytes
            /\ postErr' = "EBADF"
            /\ posts' = SelectSeq(posts, LAMBDA h : h # call[t].h)
            /\ pending' = pending - 1
    /\ call' = [call EXCEPT ![t] = NoCall]
    /\ UNCHANGED <<closeErr, masks, changes, kreg, postIdx, lck, closed,
                   wakerOpen, fdOpen, wakerCloses, fdCloses, pc, preg, events, i,
                   pollTimeout, pollErr, mode, ioErr, timeoutMs, nextId, poster,
                   executed, invoked, owed>>
    /\ UNCHANGED wsVars

\* Post, lines 146-147: one byte written to the waker pipe (a run makes fewer
\* posts than a pipe holds bytes, so the write fails only on a closed pipe);
\* Post returns the write's error.
PostWake(t) ==
    /\ call[t].name = "PostWake"
    /\ IF wakerOpen
       THEN wakerBytes' = wakerBytes + 1 /\ postErr' = "nil"
       ELSE wakerBytes' = wakerBytes /\ postErr' = "EBADF"
    /\ call' = [call EXCEPT ![t] = NoCall]
    /\ UNCHANGED <<closeErr, masks, changes, kreg, posts, postIdx, pending, lck, closed,
                   wakerOpen, fdOpen, wakerCloses, fdCloses, pc, preg, events, i,
                   pollTimeout, pollErr, mode, ioErr, timeoutMs, nextId, poster,
                   executed, invoked, owed>>
    /\ UNCHANGED wsVars

\* Close without the compare-and-swap of line 126.
CloseNoCas(t) ==
    /\ ThreadCanCall(t)
    /\ closed' = 1
    /\ call' = [call EXCEPT ![t] = [NoCall EXCEPT !.name = "CloseWaker"]]
    /\ closeErr' = closeErr
    /\ UNCHANGED <<postErr, masks, changes, kreg, wakerBytes, posts, postIdx, pending,
                   lck, wakerOpen, fdOpen, wakerCloses, fdCloses, pc, preg, events, i,
                   pollTimeout, pollErr, mode, ioErr, timeoutMs, nextId, poster,
                   executed, invoked, owed>>
    /\ UNCHANGED wsVars

\* Close, lines 126-128: the compare-and-swap of closed.
Close(t) ==
    /\ ThreadCanCall(t)
    /\ IF closed = 0
       THEN /\ closed' = 1
            /\ call' = [call EXCEPT ![t] = [NoCall EXCEPT !.name = "CloseWaker"]]
            /\ closeErr' = closeErr
       ELSE /\ closed' = closed
            /\ call' = call
            /\ closeErr' = "EOF"
    /\ UNCHANGED <<postErr, masks, changes, kreg, wakerBytes, posts, postIdx, pending,
                   lck, wakerOpen, fdOpen, wakerCloses, fdCloses, pc, preg, events, i,
                   pollTimeout, pollErr, mode, ioErr, timeoutMs, nextId, poster,
                   executed, invoked, owed>>
    /\ UNCHANGED wsVars

\* Close, line 130: p.waker.Close(); the kernel drops the knotes of a closed fd.
CloseWaker(t) ==
    /\ call[t].name = "CloseWaker"
    /\ wakerOpen' = FALSE
    /\ wakerCloses' = wakerCloses + 1
    /\ kreg' = {r \in kreg : r.slot # WakerSlot}
    /\ call' = [call EXCEPT ![t] = [NoCall EXCEPT !.name = "CloseFd"]]
    /\ UNCHANGED <<masks, changes, wakerBytes, posts, postIdx, pending, lck,
                   closed, fdOpen, fdCloses, pc, preg, events, i, pollTimeout,
                   pollErr, mode, ioErr, timeoutMs, postErr, closeErr, nextId, poster, executed,
                   invoked, owed>>
    /\ UNCHANGED wsVars

\* Close, line 131: syscall.Close(p.fd), whose error Close returns.
CloseFd(t) ==
    /\ call[t].name = "CloseFd"
    /\ fdOpen' = FALSE
    /\ fdCloses' = fdCloses + 1
    /\ kreg' = {}
    /\ closeErr' = IF fdOpen THEN "nil" ELSE "EBADF"
    /\ call' = [call EXCEPT ![t] = NoCall]
    /\ UNCHANGED <<postErr, masks, changes, wakerBytes, posts, postIdx, pending, lck,
                   closed, wakerOpen, wakerCloses, pc, preg, events, i, pollTimeout,
                   pollErr, mode, ioErr, timeoutMs, nextId, poster, executed,
                   invoked, owed>>
    /\ UNCHANGED wsVars

\* ----------------------------------------------------------- the kernel
\* kevent's changelist, applied in order: EV_ADD (with or without EV_ONESHOT)
\* registers or replaces the knote of (ident, filter), EV_DELETE removes it.
\* A change naming the closed waker pipe registers nothing.
RECURSIVE ApplyChanges(_, _)
ApplyChanges(k, cl) ==
    IF cl = <<>> THEN k
    ELSE LET c == Head(cl)
             rest == {r \in k : ~(r.slot = c.slot /\ r.filter = c.filter)}
             k2 == IF c.flags = "DELETE" \/ (c.slot = WakerSlot /\ ~wakerOpen)
                   THEN rest
                   ELSE rest \cup {[slot |-> c.slot, filter |-> c.filter,
                                     oneshot |-> (c.flags = "ADD_ONESHOT")]}
         IN ApplyChanges(k2, Tail(cl))

\* The waker's knote, while its pipe holds a byte: the one fd whose readiness
\* the program itself decides.
WakerReady == {r \in kreg : r.slot = WakerSlot /\ wakerBytes > 0}

\* The sets of knotes whose fd may be ready when kevent looks: any other fd
\* may or may not be.
ReadySets ==
    {WakerReady \cup R : R \in SUBSET {r \in kreg : r.slot # WakerSlot}}

RECURSIVE Perms(_)
Perms(S) ==
    IF S = {} THEN {<<>>}
    ELSE UNION {{<<x>> \o q : q \in Perms(S \ {x})} : x \in S}

\* What syscall.Kevent can return to a Poll with this timeout.  Called on a
\* closed kqueue fd: EBADF.  On an open one: the ready events, all of them
\* (the model has fewer knotes than len(p.events)), in any order; with none
\* ready, zero events once a non-nil timeout has passed, or EINTR; with none
\* ready and a nil timeout (timeoutMs < 0) it does not return until an event
\* arrives.  When another thread closes the fd during the call, the wait ends
\* with EBADF, is interrupted, times out, or goes on.
Kevent(tm) ==
    LET quiet == {[err |-> "EINTR", n |-> -1, evs |-> <<>>]}
                 \cup (IF tm >= 0 THEN {[err |-> "nil", n |-> 0, evs |-> <<>>]} ELSE {})
    IN IF pc = "kevent_closed" THEN {[err |-> "EBADF", n |-> -1, evs |-> <<>>]}
       ELSE IF ~fdOpen THEN {[err |-> "EBADF", n |-> -1, evs |-> <<>>]} \cup quiet
       ELSE (IF WakerReady = {} THEN quiet ELSE {})
            \cup UNION {{[err |-> "nil", n |-> Len(q), evs |-> q] :
                            q \in Perms({[filter |-> r.filter, slot |-> r.slot] : r \in R})} :
                        R \in ReadySets \ {{}}}

\* ------------------------------------------------------------------ Poll
ExecutedSet == {executed[k] : k \in 1..Len(executed)}

\* Post(h) has returned to its caller.
PostReturned(h) ==
    /\ h < nextId
    /\ \A t \in Threads : ~(call[t].name \in {"PostStore", "PostWake"} /\ call[t].h = h)

\* Poll, lines 158-167: the change list is handed to the kernel and emptied,
\* and the thread enters syscall.Kevent, on an open or on a closed kqueue fd.
Poll(tm) ==
    /\ pollTimeout' = tm
    /\ changes' = <<>>
    /\ kreg' = IF fdOpen THEN ApplyChanges(kreg, changes) ELSE kreg
    /\ events' = <<>>
    /\ i' = 1
    /\ invoked' = <<>>
    /\ owed' = {h \in 1..(nextId - 1) : PostReturned(h) /\ h \notin ExecutedSet}
    /\ pollErr' = "nil"
    /\ pc' = IF fdOpen THEN "kevent" ELSE "kevent_closed"
    /\ UNCHANGED wsVars

\* The locals of a Poll that has returned are dead.
PollLeft ==
    /\ pollTimeout' = -1
    /\ events' = <<>>
    /\ i' = 1
    /\ invoked' = <<>>
    /\ owed' = {}
    /\ pollErr' = "nil"
    /\ UNCHANGED wsVars

\* Poll without the n == 0 of line 179.
PollResultAnyCount(n, err, tm) ==
    IF err # "nil" THEN err
    ELSE IF n < 0 THEN "unknown kevent error"
    ELSE IF tm >= 0 THEN "ErrTimeout"
    ELSE "nil"

\* Poll, lines 169-181: the error Poll returns before dispatching, if any.
PollResult(n, err, tm) ==
    IF err # "nil" THEN err
    ELSE IF n < 0 THEN "unknown kevent error"
    ELSE IF n = 0 /\ tm >= 0 THEN "ErrTimeout"
    ELSE "nil"

\* syscall.Kevent returns (a fired one-shot knote is gone from the kqueue), and
\* Poll returns its error or enters the dispatch loop.
KeventReturn ==
    /\ pc \in {"kevent", "kevent_closed"}
    /\ \E out \in Kevent(pollTimeout) :
         LET e == PollResult(out.n, out.err, pollTimeout)
             fired == {r \in kreg : \E k \in 1..Len(out.evs) :
                          out.evs[k].slot = r.slot /\ out.evs[k].filter = r.filter}
         IN /\ kreg' = kreg \ {r \in fired : r.oneshot}
            /\ IF e # "nil"
               THEN /\ pollErr' = e
                    /\ pc' = "ret"
                    /\ UNCHANGED <<events, i>>
               ELSE /\ events' = out.evs
                    /\ i' = 1
                    /\ pc' = "dispatch"
                    /\ pollErr' = pollErr
    /\ UNCHANGED <<masks, changes, wakerBytes, posts, postIdx, pending, lck, closed,
                   wakerOpen, fdOpen, wakerCloses, fdCloses, preg, pollTimeout, mode,
                   ioErr, timeoutMs, call, postErr, closeErr, nextId, poster,
                   executed, invoked, owed>>
    /\ UNCHANGED wsVars

\* The dispatch loop testing the slot mask alone, not the event's kind.
FiresArmed(ev, s, kind) == BitAnd(masks[s], kind) = kind

\* The tests of lines 196 and 202 on the slot of an event.
Fires(ev, s, kind) == BitAnd(BitAnd(ev, masks[s]), kind) = kind

\* Poll, lines 183-206: the next event is a slot's; the load of p.pending--
\* for the first of its two handlers that is both ready and armed.
DispatchLoad ==
    /\ pc = "dispatch"
    /\ i <= Len(events)
    /\ events[i].slot # WakerSlot
    /\ LET s == events[i].slot
           ev == -events[i].filter
       IN IF Fires(ev, s, PollerReadEvent)
          THEN preg' = pending /\ pc' = "read" /\ i' = i
          ELSE IF Fires(ev, s, PollerWriteEvent)
          THEN preg' = pending /\ pc' = "write" /\ i' = i
          ELSE preg' = preg /\ pc' = pc /\ i' = i + 1
    /\ UNCHANGED <<masks, changes, kreg, wakerBytes, posts, postIdx, pending,
                   lck, closed, wakerOpen, fdOpen, wakerCloses, fdCloses, events,
                   pollTimeout, pollErr, mode, ioErr, timeoutMs, call, postErr, closeErr, nextId,
                   poster, executed, invoked, owed>>
    /\ UNCHANGED wsVars

\* Lines 197-199 and 203-205: the store of p.pending--, the bit cleared, the
\* handler called.
DispatchStore ==
    /\ pc \in {"read", "write"}
    /\ LET s == events[i].slot
           kind == IF pc = "read" THEN PollerReadEvent ELSE PollerWriteEvent
       IN /\ pending' = preg - 1
          /\ masks' = [masks EXCEPT ![s] = BitXor(@, kind)]
          /\ invoked' = Append(invoked, [slot |-> s, ev |-> kind, h |-> 0, at |-> i])
    /\ pc' = "handler"
    /\ preg' = 0
    /\ UNCHANGED <<changes, kreg, wakerBytes, posts, postIdx, lck, closed,
                   wakerOpen, fdOpen, wakerCloses, fdCloses, events, i,
                   pollTimeout, pollErr, mode, ioErr, timeoutMs, call, postErr, closeErr, nextId,
                   poster, executed, owed>>
    /\ UNCHANGED wsVars

\* A slot handler returns: after the read handler the write test of line 202.
HandlerReturn ==
    /\ pc = "handler"
    /\ call[PollerThread].name = "none"
    /\ LET s == events[i].slot
           ev == -events[i].filter
           last == invoked[Len(invoked)]
       IN IF last.ev = PollerReadEvent /\ Fires(ev, s, PollerWriteEvent)
          THEN preg' = pending /\ pc' = "write" /\ i' = i
          ELSE preg' = preg /\ pc' = "dispatch" /\ i' = i + 1
    /\ UNCHANGED <<masks, changes, kreg, wakerBytes, posts, postIdx, pending,
                   lck, closed, wakerOpen, fdOpen, wakerCloses, fdCloses, events,
                   pollTimeout, pollErr, mode, ioErr, timeoutMs, call, postErr, closeErr, nextId,
                   poster, executed, invoked, owed>>
    /\ UNCHANGED wsVars

\* Poll treating the waker's event as a slot's: the read bit cleared and
\* counted before executePost.
DispatchWakerAsSlot ==
    /\ pc = "dispatch"
    /\ i <= Len(events)
    /\ events[i].slot = WakerSlot
    /\ wakerBytes' = IF wakerOpen THEN 0 ELSE wakerBytes
    /\ pending' = pending - 1
    /\ masks' = [masks EXCEPT ![WakerSlot] = BitXor(@, PollerReadEvent)]
    /\ pc' = "lock"
    /\ UNCHANGED <<changes, kreg, posts, postIdx, lck, closed,
                   wakerOpen, fdOpen, wakerCloses, fdCloses, preg, events, i,
                   pollTimeout, pollErr, mode, ioErr, timeoutMs, call, postErr, closeErr, nextId,
                   poster, executed, invoked, owed>>
    /\ UNCHANGED wsVars

\* executePost reading one byte of the waker pipe instead of reading until
\* the read fails.
DispatchWakerOneByte ==
    /\ pc = "dispatch"
    /\ i <= Len(events)
    /\ events[i].slot = WakerSlot
    /\ wakerBytes' = IF wakerOpen /\ wakerBytes > 0 THEN wakerBytes - 1 ELSE wakerBytes
    /\ pc' = "lock"
    /\ UNCHANGED <<masks, changes, kreg, posts, postIdx, pending, lck, closed,
                   wakerOpen, fdOpen, wakerCloses, fdCloses, preg, events, i,
                   pollTimeout, pollErr, mode, ioErr, timeoutMs, call, postErr, closeErr, nextId,
                   poster, executed, invoked, owed>>
    /\ UNCHANGED wsVars

\* The dispatch loop without the test of line 191: executePost at any event.
DispatchWakerAnyEvent ==
    /\ pc = "dispatch"
    /\ i <= Len(events)
    /\ wakerBytes' = IF wakerOpen THEN 0 ELSE wakerBytes
    /\ pc' = "lock"
    /\ UNCHANGED <<masks, changes, kreg, posts, postIdx, pending, lck, closed,
                   wakerOpen, fdOpen, wakerCloses, fdCloses, preg, events, i,
                   pollTimeout, pollErr, mode, ioErr, timeoutMs, call, postErr, closeErr, nextId,
                   poster, executed, invoked, owed>>
    /\ UNCHANGED wsVars

\* Lines 191-193 and executePost, lines 213-218: the event is the waker's; the
\* pipe is read until the read fails (at once on a closed pipe).
DispatchWaker ==
    /\ pc = "dispatch"
    /\ i <= Len(events)
    /\ events[i].slot = WakerSlot
    /\ wakerBytes' = IF wakerOpen THEN 0 ELSE wakerBytes
    /\ pc' = "lock"
    /\ UNCHANGED <<masks, changes, kreg, posts, postIdx, pending, lck, closed,
                   wakerOpen, fdOpen, wakerCloses, fdCloses, preg, events, i,
                   pollTimeout, pollErr, mode, ioErr, timeoutMs, call, postErr, closeErr, nextId,
                   poster, executed, invoked, owed>>
    /\ UNCHANGED wsVars

\* executePost, line 220: p.lck.Lock().
ExecutePostLock ==
    /\ pc = "lock"
    /\ lck = "free"
    /\ lck' = PollerThread
    /\ postIdx' = 0
    /\ pc' = "postloop"
    /\ UNCHANGED <<masks, changes, kreg, wakerBytes, posts, pending, closed,
                   wakerOpen, fdOpen, wakerCloses, fdCloses, preg, events, i,
                   pollTimeout, pollErr, mode, ioErr, timeoutMs, call, postErr, closeErr, nextId,
                   poster, executed, invoked, owed>>
    /\ UNCHANGED wsVars

\* executePost running the queue from its tail.
ExecutePostNextLifo ==
    /\ pc = "postloop"
    /\ IF postIdx < Len(posts)
       THEN /\ executed' = Append(executed, posts[Len(posts) - postIdx])
            /\ invoked' = Append(invoked, [slot |-> WakerSlot, ev |-> 0,
                                            h |-> posts[Len(posts) - postIdx], at |-> i])
            /\ pc' = "posthandler"
            /\ UNCHANGED <<posts, postIdx, lck, i>>
       ELSE /\ posts' = <<>>
            /\ postIdx' = 0
            /\ lck' = "free"
            /\ i' = i + 1
            /\ pc' = "dispatch"
            /\ UNCHANGED <<executed, invoked>>
    /\ UNCHANGED <<masks, changes, kreg, wakerBytes, pending, closed,
                   wakerOpen, fdOpen, wakerCloses, fdCloses, preg, events,
                   pollTimeout, pollErr, mode, ioErr, timeoutMs, call, postErr, closeErr, nextId,
                   poster, owed>>
    /\ UNCHANGED wsVars

\* executePost, lines 221-226: the next handler of the range loop is called,
\* or the loop is over, the queue emptied and the mutex released.
ExecutePostNext ==
    /\ pc = "postloop"
    /\ IF postIdx < Len(posts)
       THEN /\ executed' = Append(executed, posts[postIdx + 1])
            /\ invoked' = Append(invoked, [slot |-> WakerSlot, ev |-> 0,
                                            h |-> posts[postIdx + 1], at |-> i])
            /\ pc' = "posthandler"
            /\ UNCHANGED <<posts, postIdx, lck, i>>
       ELSE /\ posts' = <<>>
            /\ postIdx' = 0
            /\ lck' = "free"
            /\ i' = i + 1
            /\ pc' = "dispatch"
            /\ UNCHANGED <<executed, invoked>>
    /\ UNCHANGED <<masks, changes, kreg, wakerBytes, pending, closed,
                   wakerOpen, fdOpen, wakerCloses, fdCloses, preg, events,
                   pollTimeout, pollErr, mode, ioErr, timeoutMs, call, postErr, closeErr, nextId,
                   poster, owed>>
    /\ UNCHANGED wsVars

\* executePost, lines 222-223: the posted handler returns, then p.pending--
\* (under the mutex).
PostHandlerReturn ==
    /\ pc = "posthandler"
    /\ call[PollerThread].name = "none"
    /\ pending' = pending - 1
    /\ postIdx' = postIdx + 1
    /\ pc' = "postloop"
    /\ UNCHANGED <<masks, changes, kreg, wakerBytes, posts, lck, closed,
                   wakerOpen, fdOpen, wakerCloses, fdCloses, preg, events, i,
                   pollTimeout, pollErr, mode, ioErr, timeoutMs, call, postErr, closeErr, nextId,
                   poster, executed, invoked, owed>>
    /\ UNCHANGED wsVars

\* Poll, line 209: the loop is over.
DispatchDone ==
    /\ pc = "dispatch"
    /\ i > Len(events)
    /\ pollErr' = "nil"
    /\ pc' = "ret"
    /\ UNCHANGED <<masks, changes, kreg, wakerBytes, posts, postIdx, pending,
                   lck, closed, wakerOpen, fdOpen, wakerCloses, fdCloses, preg,
                   events, i, pollTimeout, mode, ioErr, timeoutMs, call, postErr, closeErr, nextId,
                   poster, executed, invoked, owed>>
    /\ UNCHANGED wsVars

\* ------------------------------------------------------------ IO facade
Idle == pc = "idle" /\ mode = "none" /\ call[PollerThread].name = "none"

Unchanged_IO ==
    UNCHANGED <<masks, wakerBytes, posts, postIdx, pending, lck, closed,
                wakerOpen, fdOpen, wakerCloses, fdCloses, preg, timeoutMs,
                call, postErr, closeErr, nextId, poster, executed>>

\* IO.RunOne: ioc.poller.Poll(ioc.timeoutMs).
RunOne ==
    /\ Idle
    /\ mode' = "RunOne"
    /\ Poll(timeoutMs)
    /\ ioErr' = "nil"
    /\ Unchanged_IO
    /\ UNCHANGED wsVars

\* IO.PollOne: ioc.poller.Poll(-1).
PollOne ==
    /\ Idle
    /\ mode' = "PollOne"
    /\ Poll(-1)
    /\ ioErr' = "nil"
    /\ Unchanged_IO
    /\ UNCHANGED wsVars

\* IO.Run: the first RunOne of the loop.
Run ==
    /\ Idle
    /\ mode' = "Run"
    /\ Poll(timeoutMs)
    /\ ioErr' = "nil"
    /\ Unchanged_IO
    /\ UNCHANGED wsVars

\* IO.RunPending is called.
RunPending ==
    /\ Idle
    /\ mode' = "RunPending"
    /\ pc' = "rp_check"
    /\ ioErr' = "nil"
    /\ UNCHANGED <<masks, changes, kreg, wakerBytes, posts, postIdx, pending,
                   lck, closed, wakerOpen, fdOpen, wakerCloses, fdCloses, preg,
                   events, i, pollTimeout, pollErr, timeoutMs, call, postErr,
                   closeErr, nextId, poster, executed, invoked, owed>>
    /\ UNCHANGED wsVars

\* RunPending returning without the test of Pending().
RunPendingCheckOnce ==
    /\ pc = "rp_check"
    /\ ioErr' = "nil"
    /\ mode' = "none"
    /\ pc' = "idle"
    /\ UNCHANGED <<changes, kreg, events, i, pollTimeout, pollErr, invoked, owed>>
    /\ Unchanged_IO
    /\ UNCHANGED wsVars

\* RunPending, lines 77-81: Pending() <= 0 ends the loop, else RunOne.
RunPendingCheck ==
    /\ pc = "rp_check"
    /\ IF pending <= 0
       THEN /\ ioErr' = "nil"
            /\ mode' = "none"
            /\ pc' = "idle"
            /\ UNCHANGED <<changes, kreg, events, i, pollTimeout, pollErr, invoked,
                           owed>>
       ELSE /\ Poll(timeoutMs)
            /\ UNCHANGED <<ioErr, mode>>
    /\ Unchanged_IO
    /\ UNCHANGED wsVars

\* RunOne / PollOne without the test of ioc.poller.Closed().
RunOneResultNoClosedTest(err) == err

\* RunOne / PollOne, lines 91-98 and 113-120: what they make of Poll's error.
RunOneResult(err) ==
    IF err # "nil" THEN (IF closed = 1 THEN "EOF" ELSE err) ELSE "nil"

\* Poll has returned to RunOne or PollOne, and that to its caller: the loops
\* of Run and RunPending go on unless the error is neither nil nor ErrTimeout.
IOReturn ==
    /\ pc = "ret"
    /\ LET e == RunOneResult(pollErr)
       IN IF mode \in {"RunOne", "PollOne"} \/ (e # "nil" /\ e # "ErrTimeout")
          THEN /\ ioErr' = e
               /\ mode' = "none"
               /\ pc' = "idle"
               /\ PollLeft
               /\ UNCHANGED <<changes, kreg>>
          ELSE IF mode = "RunPending"
          THEN /\ pc' = "rp_check"
               /\ PollLeft
               /\ UNCHANGED <<ioErr, mode, changes, kreg>>
          ELSE /\ Poll(timeoutMs)
               /\ UNCHANGED <<ioErr, mode>>
    /\ Unchanged_IO
    /\ UNCHANGED wsVars

\* ------------------------------------------------------- specifications
\* The poller thread's steps inside Poll and the IO loops.
PollSteps ==
    \/ KeventReturn
    \/ DispatchWaker
    \/ ExecutePostLock
    \/ ExecutePostNext
    \/ PostHandlerReturn
    \/ DispatchDone
    \/ IOReturn

\* The slot API on slot s.
SlotCalls(s) ==
    \/ SetRead(s)
    \/ SetWrite(s)
    \/ DelRead(s)
    \/ DelWrite(s)
    \/ Del(s)

SlotSteps ==
    \/ SetStore
    \/ DelStore
    \/ DelThenWrite
    \/ DispatchLoad
    \/ DispatchStore
    \/ HandlerReturn

PostSteps(t) ==
    \/ PostLock(t)
    \/ PostStore(t)
    \/ PostWake(t)

CloseSteps(t) ==
    \/ Close(t)
    \/ CloseWaker(t)
    \/ CloseFd(t)

\* The threads that close the poller: its own, and one other.
Closers == {PollerThread, "t1"}

\* The read interest of slot "a": its registration and its dispatch.
ReadSlotSteps ==
    \/ SetRead("a")
    \/ DelRead("a")
    \/ SetStore
    \/ DelStore
    \/ DispatchLoad
    \/ DispatchStore
    \/ HandlerReturn

\* The concurrent program: the poller thread registers the read interest of
\* one slot and runs RunOne and RunPending, while two other threads post.
Next ==
    \/ PollSteps
    \/ ReadSlotSteps
    \/ RunOne
    \/ RunPending
    \/ RunPendingCheck
    \/ \E t \in Producers : PostSteps(t)

Spec == Init /\ [][Next]_vars

\* The program of the post example: producers post, the poller thread runs
\* RunPending and RunOne, and no slot is registered.
NextPost ==
    \/ PollSteps
    \/ RunOne
    \/ RunPending
    \/ RunPendingCheck
    \/ \E t \in Producers : PostSteps(t)

SpecPost == Init /\ [][NextPost]_vars

\* The program that closes the poller, from the poller thread and from
\* another, around the poller thread's polls, posts and one read interest.
NextClose ==
    \/ PollSteps
    \/ ReadSlotSteps
    \/ RunOne
    \/ PollOne
    \/ Run
    \/ PostSteps(PollerThread)
    \/ \E t \in Closers : CloseSteps(t)

SpecClose == Init /\ [][NextClose]_vars

\* The single-threaded program: every call is the poller thread's.
NextSeq ==
    \/ PollSteps
    \/ SlotSteps
    \/ SlotCalls("a")
    \/ RunOne
    \/ PollOne
    \/ Run
    \/ RunPending
    \/ RunPendingCheck
    \/ PostSteps(PollerThread)
    \/ CloseSteps(PollerThread)

SpecSeq == Init /\ [][NextSeq]_vars

\* The program that dispatches: the poller thread arms the read interests of
\* two slots and runs RunOne, while another thread posts.
NextDispatch ==
    \/ PollSteps
    \/ SetRead("a")
    \/ SetRead("b")
    \/ SetStore
    \/ DispatchLoad
    \/ DispatchStore
    \/ HandlerReturn
    \/ RunOne
    \/ PostSteps("t1")

SpecDispatch == Init /\ [][NextDispatch]_vars

\* The program's own calls, made between IO calls: it posts, and it arms the
\* read interest of slot a.
MainPost == Idle /\ PostLock(PollerThread)

MainSetRead == Idle /\ SetRead("a")

\* The program that posts and then runs RunPending (the post example), all on
\* one thread: handlers neither post nor arm.
NextPending ==
    \/ PollSteps
    \/ RunPending
    \/ RunPendingCheck
    \/ MainPost
    \/ PostStore(PollerThread)
    \/ PostWake(PollerThread)
    \/ MainSetRead
    \/ SetStore
    \/ DispatchLoad
    \/ DispatchStore
    \/ HandlerReturn

\* A thread that is inside a call goes on running.
ThreadRuns ==
    \/ PollSteps
    \/ RunPendingCheck
    \/ PostStore(PollerThread)
    \/ PostWake(PollerThread)
    \/ SetStore
    \/ DispatchLoad
    \/ DispatchStore
    \/ HandlerReturn

SpecPending == Init /\ [][NextPending]_vars /\ WF_vars(ThreadRuns)

\* Post, lines 138-139: the thread has called Post and is at p.lck.Lock(),
\* which blocks for as long as the mutex is held, by whichever thread holds it
\* (sync.Mutex is not reentrant).
PostEnter(t) ==
    /\ ThreadCanCall(t)
    /\ nextId + Cardinality({u \in Threads : call[u].name = "PostLock"}) <= MaxPosts
    /\ call' = [call EXCEPT ![t] = [NoCall EXCEPT !.name = "PostLock"]]
    /\ UNCHANGED <<masks, changes, kreg, wakerBytes, posts, postIdx, pending, lck, closed,
                   wakerOpen, fdOpen, wakerCloses, fdCloses, pc, preg, events, i,
                   pollTimeout, pollErr, mode, ioErr, timeoutMs, postErr, closeErr, nextId,
                   poster, executed, invoked, owed>>
    /\ UNCHANGED wsVars

\* Post, lines 139-141: Lock returns, append, and the load of p.pending++.
PostAcquire(t) ==
    /\ call[t].name = "PostLock"
    /\ lck = "free"
    /\ lck' = t
    /\ posts' = Append(posts, nextId)
    /\ poster' = Append(poster, t)
    /\ nextId' = nextId + 1
    /\ call' = [call EXCEPT ![t] =
                   [NoCall EXCEPT !.name = "PostStore", !.h = nextId, !.reg = pending]]
    /\ UNCHANGED <<masks, changes, kreg, wakerBytes, postIdx, pending, closed,
                   wakerOpen, fdOpen, wakerCloses, fdCloses, pc, preg, events, i,
                   pollTimeout, pollErr, mode, ioErr, timeoutMs, postErr, closeErr, executed,
                   invoked, owed>>
    /\ UNCHANGED wsVars

\* Post, the call and its wait for the mutex apart.
PostCallSteps(t) ==
    \/ PostEnter(t)
    \/ PostAcquire(t)
    \/ PostStore(t)
    \/ PostWake(t)

\* The program whose handlers post: the poller thread runs RunOne and posts
\* between polls and from inside the handlers it runs, one other thread posts.
NextRepost ==
    \/ PollSteps
    \/ RunOne
    \/ PostCallSteps(PollerThread)
    \/ PostCallSteps("t1")

SpecRepost == Init /\ [][NextRepost]_vars

\* ================================================================ stream
\* ------------------------------------------------------------ frame codec
\* Opcodes of RFC 6455; a message type is the opcode of the frame that began
\* the message.
OpcodeContinuation == 0
OpcodeText == 1
OpcodeBinary == 2
OpcodeClose == 8
OpcodePing == 9
OpcodePong == 10

TypeText == OpcodeText
TypeBinary == OpcodeBinary
TypeClose == OpcodeClose
TypePing == OpcodePing
TypePong == OpcodePong

\* Close status codes.
CloseNormal == 1000
CloseGoingAway == 1001
CloseProtocolError == 1002

\* The longest payload a control frame may carry.
MaxControlFramePayloadLength == 125

\* A frame in memory.  The payload of a masked frame is held masked.
NewFrame(fin, opcode, payload) ==
    [fin |-> fin, opcode |-> opcode, masked |-> FALSE, key |-> <<>>, payload |-> payload]

IsControl(f) == f.opcode \in {OpcodeClose, OpcodePing, OpcodePong}

\* p'[i] = p[i] XOR key[i mod 4], with i counted from 0.
XorKey(p, key) ==
    [k \in 1..Len(p) |-> BitXor(p[k], key[((k - 1) % 4) + 1])]

MaskAsIs(f, key) ==
    [f EXCEPT !.key = key, !.payload = XorKey(f.payload, key)]

Mask(f, key) ==
    [f EXCEPT !.masked = TRUE, !.key = key, !.payload = XorKey(f.payload, key)]

Unmask(f) ==
    IF f.masked
    THEN [f EXCEPT !.masked = FALSE, !.payload = XorKey(f.payload, f.key)]
    ELSE f

\* Frame.WriteTo: the bytes of a frame.  Lengths up to 125 go in the 7-bit
\* field, longer ones in the 16-bit extension, high byte first.
WriteTo(f) ==
    LET len == Len(f.payload)
        m == IF f.masked THEN 128 ELSE 0
    IN <<(IF f.fin THEN 128 ELSE 0) + f.opcode>>
       \o (IF len <= 125 THEN <<m + len>> ELSE <<m + 126, len \div 256, len % 256>>)
       \o (IF f.masked THEN f.key ELSE <<>>)
       \o f.payload

\* Frame.ReadFrom: the first frame of b and the bytes it took; n = 0 when b does
\* not hold a whole frame.
ReadFrom(b) ==
    LET none == [n |-> 0, f |-> NewFrame(FALSE, OpcodeContinuation, <<>>)]
    IN IF Len(b) < 2 THEN none
       ELSE LET l7 == b[2] % 128
                masked == b[2] >= 128
                ext == IF l7 = 126 THEN 2 ELSE 0
            IN IF Len(b) < 2 + ext THEN none
               ELSE LET len == IF l7 = 126 THEN b[3] * 256 + b[4] ELSE l7
                        hdr == 2 + ext + (IF masked THEN 4 ELSE 0)
                    IN IF Len(b) < hdr + len THEN none
                       ELSE [n |-> hdr + len,
                             f |-> [fin |-> b[1] >= 128,
                                    opcode |-> b[1] % 16,
                                    masked |-> masked,
                                    key |-> IF masked THEN SubSeq(b, 3 + ext, 6 + ext) ELSE <<>>,
                                    payload |-> SubSeq(b, hdr + 1, hdr + len)]]

\* Two bytes of status code, high byte first, then the reason.
EncodeCloseFramePayload(code, reason) == <<code \div 256, code % 256>> \o reason

DecodeCloseFramePayload(b) ==
    IF Len(b) < 2 THEN [code |-> 0, reason |-> <<>>]
    ELSE [code |-> b[1] * 256 + b[2], reason |-> SubSeq(b, 3, Len(b))]

\* A control frame must have FIN and a payload of at most 125 bytes.
ValidControlFrameFinOnly(f) == f.fin

ValidControlFrame(f) == f.fin /\ Len(f.payload) <= MaxControlFramePayloadLength

\* ------------------------------------------------------ the peer's frames
\* Data frames a script may hold, control frames a script may end with,
\* connections a program may open, frames a program may write.
MaxFrames == 2
MaxConnects == 2
MaxWrites == 1

\* The payload of the k-th data frame of a script: no two are alike.
PayloadAt(k) == <<2 * k - 1, 2 * k>>

DataFrames(k) ==
    {NewFrame(fin, op, PayloadAt(k)) :
        fin \in BOOLEAN, op \in {OpcodeContinuation, OpcodeText, OpcodeBinary}}

RECURSIVE DataScripts(_)
DataScripts(k) ==
    IF k = 0 THEN {<<>>}
    ELSE LET shorter == DataScripts(k - 1)
         IN shorter \cup {Append(d, f) : d \in {e \in shorter : Len(e) = k - 1},
                                         f \in DataFrames(k)}

Bye == <<98, 121, 101>>
LongPayload == [k \in 1..(MaxControlFramePayloadLength + 1) |-> 7]

ControlFrames ==
    {NewFrame(TRUE, OpcodePing, <<1, 2>>),
     NewFrame(TRUE, OpcodePong, <<1, 2>>),
     NewFrame(TRUE, OpcodeClose, EncodeCloseFramePayload(CloseNormal, Bye)),
     NewFrame(TRUE, OpcodeClose, EncodeCloseFramePayload(CloseGoingAway, <<>>)),
     NewFrame(FALSE, OpcodeClose, <<1, 2>>),
     NewFrame(FALSE, OpcodePing, <<1, 2>>),
     NewFrame(TRUE, OpcodePing, LongPayload)}

\* A message is in progress after the data frames d.
Unfinished(d) == d # <<>> /\ ~d[Len(d)].fin

\* What a peer sends on a connection before it goes quiet: data frames and
\* then, between messages, at most one control frame.
Scripts ==
    DataScripts(MaxFrames)
    \cup {Append(d, f) : d \in {e \in DataScripts(MaxFrames) : ~Unfinished(e)},
                         f \in ControlFrames}

Readers == {"NextMessage", "AsyncNextMessage", "NextFrame", "AsyncNextFrame"}
IsAsync(r) == r \in {"AsyncNextMessage", "AsyncNextFrame"}
IsMessage(r) == r \in {"NextMessage", "AsyncNextMessage"}

Urls == {"ws://localhost:8080", "localhost:8081"}
HasScheme(url) == url = "ws://localhost:8080"

\* Masking keys a client may draw.
Keys == {<<55, 250, 33, 61>>, <<1, 0, 255, 128>>}

\* Payloads the program writes.
UserPayloads == {<<1, 2, 3, 4, 5>>, <<>>}

NoFrame == NewFrame(FALSE, TypeNone, <<>>)

\* Scripts of at most one frame.
ShortScripts == {s \in Scripts : Len(s) <= 1}

\* sonic.MustIO()
MustIO == NewIO /\ timeoutMs = -1

\* A program with a new stream.
InitStream ==
    /\ MustIO
    /\ \E s \in ShortScripts, r \in Readers : NewWebsocketStream(s, r)

\* ws.state = StateActive; ws.init(mock): a stream set up as connected, its
\* peer about to send s.
ActiveStream(s, r) ==
    /\ ws = [state |-> StateActive, src |-> <<>>, pending |-> <<>>, frag |-> TypeNone]
    /\ mock = <<>>
    /\ peer = s
    /\ wire = <<>>
    /\ rd = NoRead
    /\ hs = "none"
    /\ res = NoResult
    /\ ccb = NoCallback
    /\ rcvd = <<>>
    /\ replies = <<>>
    /\ sent = <<>>
    /\ conns = 1
    /\ script = s
    /\ reader = r

\* A program that reads from a connected stream.
InitRead ==
    /\ MustIO
    /\ \E s \in Scripts, r \in Readers : ActiveStream(s, r)

\* A program that reads from and writes to a connected stream.
InitWrite ==
    /\ MustIO
    /\ \E s \in ShortScripts, r \in Readers : ActiveStream(s, r)

\* ----------------------------------------------------------- handshake
StreamIdle == rd.name = "none" /\ hs = "none"

\* AsyncHandshake(url, cb): on a new stream, or to reconnect one that failed.
AsyncHandshake(url) ==
    /\ StreamIdle
    /\ ws.state \in {StateHandshake, StateTerminated}
    /\ conns < MaxConnects
    /\ hs' = url
    /\ conns' = conns + 1
    /\ UNCHANGED <<ws, mock, peer, wire, rd, res, ccb, rcvd, replies, sent, script, reader>>
    /\ UNCHANGED pollerVars

\* The state a handshake that ended with err leaves the stream in.
HandshakeStateAlwaysActive(err) == StateActive

HandshakeState(err) == IF err = "nil" THEN StateActive ELSE StateTerminated

\* The handshake ends and its callback runs: a url without a ws scheme is
\* ErrInvalidAddress, a connection or an upgrade may fail, and a successful
\* upgrade leaves a fresh connection.
HandshakeDone ==
    /\ hs # "none"
    /\ \E err \in (IF HasScheme(hs) THEN {"nil", "ErrConnect"} ELSE {"ErrInvalidAddress"}) :
          /\ ws' = [state |-> HandshakeState(err), src |-> <<>>, pending |-> <<>>,
                    frag |-> TypeNone]
          /\ peer' = IF err = "nil" THEN script ELSE <<>>
          /\ res' = [NoResult EXCEPT !.op = "AsyncHandshake", !.async = TRUE, !.err = err,
                                     !.state = HandshakeState(err)]
    /\ hs' = "none"
    /\ mock' = <<>>
    /\ wire' = <<>>
    /\ rcvd' = <<>>
    /\ replies' = <<>>
    /\ sent' = <<>>
    /\ UNCHANGED <<rd, ccb, conns, script, reader>>
    /\ UNCHANGED pollerVars

\* The peer's next frame arrives in the source buffer, unmasked as a server
\* sends it.
Seed ==
    /\ ws.state \notin {StateHandshake, StateTerminated}
    /\ hs = "none"
    /\ peer # <<>>
    /\ ws' = [ws EXCEPT !.src = @ \o WriteTo(Head(peer))]
    /\ wire' = Append(wire, Head(peer))
    /\ peer' = Tail(peer)
    /\ UNCHANGED <<mock, rd, hs, res, ccb, rcvd, replies, sent, conns, script, reader>>
    /\ UNCHANGED pollerVars

\* -------------------------------------------------------- read pipeline
\* A read completes: its result, and for a completion callback the state and
\* the pending replies the callback finds.
Complete(err, n, mt, b, f, st, pend, since) ==
    /\ res' = [op |-> rd.name, async |-> rd.async, err |-> err, n |-> n, mt |-> mt, b |-> b,
               f |-> f, state |-> st, pending |-> pend, since |-> since]
    /\ rd' = NoRead

RECURSIVE Bytes(_)
Bytes(q) == IF q = <<>> THEN <<>> ELSE WriteTo(Head(q)) \o Bytes(Tail(q))

\* The state in which a read ends once the replies to a control frame are
\* flushed; more says that the peer has more to say.  After the reply to the
\* peer's Close NextMessage returns in ClosedByPeer while the callback of
\* AsyncNextMessage finds Terminated; a stream that can still read and whose
\* underlying stream has ended is Terminated.
AfterFlush(st, async, more) ==
    IF st = StateClosedByPeer THEN (IF async THEN StateTerminated ELSE StateClosedByPeer)
    ELSE IF st \in {StateActive, StateClosedByUs} /\ ~more THEN StateTerminated
    ELSE st

\* The replies still pending when a read is called are flushed to the
\* underlying stream, oldest first, before the read goes on.
FlushPending(async) ==
    IF ws.pending # <<>>
    THEN /\ mock' = mock \o Bytes(ws.pending)
         /\ sent' = sent \o replies
         /\ replies' = <<>>
         /\ ws' = [ws EXCEPT !.pending = <<>>, !.state = AfterFlush(@, async, TRUE)]
    ELSE UNCHANGED <<ws, mock, sent, replies>>

\* NextMessage(b) and AsyncNextMessage(b, cb).
NextMessage(async) ==
    /\ StreamIdle
    /\ reader = (IF async THEN "AsyncNextMessage" ELSE "NextMessage")
    /\ ws.state \in {StateActive, StateClosedByPeer, StateCloseAcked, StateTerminated}
    /\ rd' = [NoRead EXCEPT !.name = "NextMessage", !.async = async, !.step = "read"]
    /\ FlushPending(async)
    /\ UNCHANGED <<peer, wire, hs, res, ccb, rcvd, conns, script, reader>>
    /\ UNCHANGED pollerVars

\* NextFrame() and AsyncNextFrame(cb).
NextFrame(async) ==
    /\ StreamIdle
    /\ reader = (IF async THEN "AsyncNextFrame" ELSE "NextFrame")
    /\ ws.state # StateHandshake
    /\ rd' = [NoRead EXCEPT !.name = "NextFrame", !.async = async, !.step = "read"]
    /\ FlushPending(async)
    /\ UNCHANGED <<peer, wire, hs, res, ccb, rcvd, conns, script, reader>>
    /\ UNCHANGED pollerVars

\* Frames can be read after a successful handshake until a Close has been
\* received.
canRead == ws.state \in {StateActive, StateClosedByUs}

\* The frame at the head of the source buffer.
Next1 == ReadFrom(ws.src)

\* Nothing can be read: the stream is past reading, or the source is empty and
\* the underlying stream has ended, which is a transport failure.
ReadEnd ==
    /\ rd.step = "read"
    /\ \/ /\ ~canRead
          /\ UNCHANGED ws
       \/ /\ canRead
          /\ ws.src = <<>>
          /\ peer = <<>>
          /\ ws' = [ws EXCEPT !.state = StateTerminated]
    /\ Complete("EOF", rd.n, rd.mt, rd.b, NoFrame, ws'.state, ws'.pending, rcvd)
    /\ UNCHANGED <<mock, peer, wire, hs, ccb, rcvd, replies, sent, conns, script, reader>>
    /\ UNCHANGED pollerVars

\* The reply to a protocol error: Close with 1002.
ProtocolErrorReply ==
    NewFrame(TRUE, OpcodeClose, EncodeCloseFramePayload(CloseProtocolError, <<>>))

\* The replies a valid control frame f calls for in state st: a Pong with the
\* payload of a Ping, a Close with the code and reason of the peer's Close.
ControlReplyNoEcho(f, st) ==
    IF f.opcode = OpcodePing THEN <<NewFrame(TRUE, OpcodePong, <<>>)>>
    ELSE IF f.opcode = OpcodeClose /\ st = StateActive
    THEN <<NewFrame(TRUE, OpcodeClose, EncodeCloseFramePayload(CloseNormal, <<>>))>>
    ELSE <<>>

ControlReply(f, st) ==
    IF f.opcode = OpcodePing THEN <<NewFrame(TRUE, OpcodePong, f.payload)>>
    ELSE IF f.opcode = OpcodeClose /\ st = StateActive
    THEN LET cr == DecodeCloseFramePayload(f.payload)
         IN <<NewFrame(TRUE, OpcodeClose, EncodeCloseFramePayload(cr.code, cr.reason))>>
    ELSE <<>>

\* The state a valid control frame f moves the stream to from st.
ControlStateStay(f, st) == st

ControlState(f, st) ==
    IF f.opcode # OpcodeClose THEN st
    ELSE IF st = StateActive THEN StateClosedByPeer
    ELSE IF st = StateClosedByUs THEN StateCloseAcked
    ELSE st

\* The state a control frame that breaks the validity rules leaves.
InvalidControlState(st) == StateClosedByUs

MaskAll(q, key) == [k \in 1..Len(q) |-> Mask(q[k], key)]

\* A control frame is at the head of the source.  An invalid one ends the read
\* with a Close(1002) enqueued; a valid one has its reply enqueued and is
\* handed to the caller of NextFrame, or to the control callback.
ReadControl ==
    /\ rd.step = "read"
    /\ canRead
    /\ Next1.n > 0
    /\ IsControl(Next1.f)
    /\ wire' = Tail(wire)
    /\ \E key \in Keys :
          LET f == Next1.f
              rest == SubSeq(ws.src, Next1.n + 1, Len(ws.src))
          IN IF ~ValidControlFrame(f)
             THEN /\ ws' = [ws EXCEPT !.src = rest,
                                      !.pending = Append(@, Mask(ProtocolErrorReply, key)),
                                      !.state = InvalidControlState(@)]
                  /\ replies' = Append(replies, ProtocolErrorReply)
                  /\ Complete("ErrInvalidControlFrame", rd.n, rd.mt, rd.b, NoFrame,
                              ws'.state, ws'.pending, rcvd)
             ELSE LET q == ControlReply(f, ws.state)
                  IN /\ ws' = [ws EXCEPT !.src = rest,
                                         !.pending = @ \o MaskAll(q, key),
                                         !.state = ControlState(f, @)]
                     /\ replies' = replies \o q
                     /\ IF rd.name = "NextFrame"
                        THEN Complete("nil", 0, TypeNone, <<>>, f, ws'.state, ws'.pending, rcvd)
                        ELSE /\ rd' = [rd EXCEPT !.step = "ccb", !.f = f]
                             /\ UNCHANGED res
    /\ UNCHANGED <<mock, peer, hs, ccb, rcvd, sent, conns, script, reader>>
    /\ UNCHANGED pollerVars

\* The control callback runs with (message type, payload) and looks at the
\* stream.
ControlCallback ==
    /\ rd.step = "ccb"
    /\ ccb' = [ran |-> TRUE, mt |-> rd.f.opcode, payload |-> rd.f.payload,
               pending |-> ws.pending, state |-> ws.state]
    /\ rd' = [rd EXCEPT !.step = "flush"]
    /\ UNCHANGED <<ws, mock, peer, wire, hs, res, rcvd, replies, sent, conns, script, reader>>
    /\ UNCHANGED pollerVars

\* The read going on to its end with the replies left in the queue.
FlushKeep ==
    /\ rd.step = "flush"
    /\ rd' = [rd EXCEPT !.step = "eof"]
    /\ UNCHANGED <<ws, mock, sent, replies>>
    /\ UNCHANGED <<peer, wire, hs, res, ccb, rcvd, conns, script, reader>>
    /\ UNCHANGED pollerVars

\* The pending replies go to the underlying stream, oldest first.
Flush ==
    /\ rd.step = "flush"
    /\ mock' = mock \o Bytes(ws.pending)
    /\ sent' = sent \o replies
    /\ replies' = <<>>
    /\ ws' = [ws EXCEPT !.pending = <<>>]
    /\ rd' = [rd EXCEPT !.step = "eof"]
    /\ UNCHANGED <<peer, wire, hs, res, ccb, rcvd, conns, script, reader>>
    /\ UNCHANGED pollerVars

\* After the flush the read ends with EOF.
ReadEOF ==
    /\ rd.step = "eof"
    /\ ws' = [ws EXCEPT !.state = AfterFlush(@, rd.async, ws.src # <<>> \/ peer # <<>>)]
    /\ Complete("EOF", rd.n, rd.mt, rd.b, NoFrame, ws'.state, ws'.pending, rcvd)
    /\ UNCHANGED <<mock, peer, wire, hs, ccb, rcvd, replies, sent, conns, script, reader>>
    /\ UNCHANGED pollerVars

\* The type of the message a data frame f belongs to, given the stored
\* fragmentation opcode.
MessageTypeOf(f, frag) == IF f.opcode = OpcodeContinuation THEN frag ELSE f.opcode

\* The caller's buffer after the payload of f is copied in.
CopyFront(b, f) == Unmask(f).payload \o b

Copy(b, f) == b \o Unmask(f).payload

\* The fragmentation check that looks only for a Continuation with no message
\* in progress.
UnexpectedContinuation(f, frag) == f.opcode = OpcodeContinuation /\ frag = TypeNone

\* The data frame f breaks the order of fragments, frag being the stored
\* fragmentation opcode: a Continuation with no message in progress, or a
\* first frame while a message is in progress.
UnexpectedOpcode(f, frag) == (f.opcode = OpcodeContinuation) = (frag = TypeNone)

\* A data frame is at the head of the source.  NextFrame hands it over.
\* NextMessage copies its payload to the caller's buffer and completes on FIN;
\* a Continuation with no message in progress, or a new message while one is
\* in progress, is a protocol error.
ReadData ==
    /\ rd.step = "read"
    /\ canRead
    /\ Next1.n > 0
    /\ ~IsControl(Next1.f)
    /\ wire' = Tail(wire)
    /\ LET f == Next1.f
           rest == SubSeq(ws.src, Next1.n + 1, Len(ws.src))
       IN IF rd.name = "NextFrame"
          THEN /\ ws' = [ws EXCEPT !.src = rest]
               /\ Complete("nil", 0, TypeNone, <<>>, f, ws.state, ws.pending, rcvd)
               /\ UNCHANGED <<rcvd, replies>>
          ELSE IF UnexpectedOpcode(f, ws.frag)
          THEN \E key \in Keys :
                  /\ ws' = [ws EXCEPT !.src = rest,
                                      !.pending = Append(@, Mask(ProtocolErrorReply, key)),
                                      !.state = StateClosedByUs]
                  /\ replies' = Append(replies, ProtocolErrorReply)
                  /\ Complete("ErrUnexpectedOpcode", rd.n, rd.mt, rd.b, NoFrame,
                              ws'.state, ws'.pending, rcvd)
                  /\ UNCHANGED rcvd
          ELSE LET mt == MessageTypeOf(f, ws.frag)
                   b == Copy(rd.b, f)
                   since == Append(rcvd, Head(wire))
               IN /\ ws' = [ws EXCEPT !.src = rest,
                                      !.frag = IF f.fin THEN TypeNone ELSE mt]
                  /\ IF f.fin
                     THEN /\ Complete("nil", Len(b), mt, b, NoFrame, ws.state, ws.pending, since)
                          /\ rcvd' = <<>>
                     ELSE /\ rd' = [rd EXCEPT !.b = b, !.n = Len(b), !.mt = mt]
                          /\ rcvd' = since
                          /\ UNCHANGED res
                  /\ UNCHANGED replies
    /\ UNCHANGED <<mock, peer, hs, ccb, sent, conns, script, reader>>
    /\ UNCHANGED pollerVars

\* ------------------------------------------------------- write pipeline
\* How a call that is not a read completes.
Returned(op, async, err, f, st) ==
    [NoResult EXCEPT !.op = op, !.async = async, !.err = err, !.f = f, !.state = st,
                     !.pending = ws.pending]

\* Frames can be written between a successful handshake and the first Close.
canWriteAfterEnd == ws.state \in {StateActive, StateTerminated}

canWrite == ws.state = StateActive

\* Frames the program hands to WriteFrame.
UserFrames ==
    {NewFrame(TRUE, OpcodeText, <<1, 2, 3, 4, 5>>),
     NewFrame(FALSE, OpcodeBinary, <<1, 2, 3, 4, 5>>)}

\* WriteFrame(f) and AsyncWriteFrame(f, cb): the frame goes out as it is, with
\* a mask key stamped on since the role is client.
WriteFrame(async, f) ==
    /\ StreamIdle
    /\ Len(sent) < MaxWrites
    /\ ws.state \in {StateActive, StateTerminated}
    /\ IF canWrite
       THEN \E key \in Keys :
               /\ mock' = mock \o WriteTo(Mask(f, key))
               /\ sent' = Append(sent, f)
               /\ res' = Returned("WriteFrame", async, "nil", f, ws.state)
       ELSE /\ res' = Returned("WriteFrame", async, "EOF", f, ws.state)
            /\ UNCHANGED <<mock, sent>>
    /\ UNCHANGED <<ws, peer, wire, rd, hs, ccb, rcvd, replies, conns, script, reader>>
    /\ UNCHANGED pollerVars

\* Write(b, mt) and AsyncWrite(b, mt, cb): one FIN frame of type mt.
Write(async, b, mt) ==
    /\ StreamIdle
    /\ Len(sent) < MaxWrites
    /\ ws.state \in {StateActive, StateTerminated}
    /\ LET f == NewFrame(TRUE, mt, b)
       IN IF canWrite
          THEN \E key \in Keys :
                  /\ mock' = mock \o WriteTo(Mask(f, key))
                  /\ sent' = Append(sent, f)
                  /\ res' = Returned("Write", async, "nil", f, ws.state)
          ELSE /\ res' = Returned("Write", async, "EOF", f, ws.state)
               /\ UNCHANGED <<mock, sent>>
    /\ UNCHANGED <<ws, peer, wire, rd, hs, ccb, rcvd, replies, conns, script, reader>>
    /\ UNCHANGED pollerVars

\* What the program closes with.
CloseArgs == {<<CloseNormal, Bye>>, <<CloseGoingAway, <<>>>>}

\* The state Close leaves an Active stream in.
CloseStateKeep == StateActive

CloseState == StateClosedByUs

\* Close(code, reason) and AsyncClose(code, reason, cb): one Close frame goes to
\* the underlying stream.  (The poller has a Close of its own.)
StreamClose(async, code, reason) ==
    /\ StreamIdle
    /\ ws.state \in {StateActive, StateTerminated}
    /\ LET f == NewFrame(TRUE, OpcodeClose, EncodeCloseFramePayload(code, reason))
       IN IF canWrite
          THEN \E key \in Keys :
                  /\ mock' = mock \o WriteTo(Mask(f, key))
                  /\ sent' = Append(sent, f)
                  /\ ws' = [ws EXCEPT !.state = CloseState]
                  /\ res' = Returned("Close", async, "nil", f, CloseState)
          ELSE /\ res' = Returned("Close", async, "EOF", f, ws.state)
               /\ UNCHANGED <<ws, mock, sent>>
    /\ UNCHANGED <<peer, wire, rd, hs, ccb, rcvd, replies, conns, script, reader>>
    /\ UNCHANGED pollerVars

\* ------------------------------------------------ stream specifications
ReadSteps ==
    \/ Seed
    \/ \E async \in BOOLEAN : NextMessage(async)
    \/ \E async \in BOOLEAN : NextFrame(async)
    \/ ReadEnd
    \/ ReadControl
    \/ ControlCallback
    \/ Flush
    \/ ReadEOF
    \/ ReadData

WriteSteps ==
    \/ \E async \in BOOLEAN, f \in UserFrames : WriteFrame(async, f)
    \/ \E async \in BOOLEAN, b \in UserPayloads : Write(async, b, TypeText)
    \/ \E async \in BOOLEAN, a \in CloseArgs : StreamClose(async, a[1], a[2])

\* A program that reads with one of the read APIs from a connected stream
\* whose peer follows a script.
NextRead == ReadSteps

SpecRead == InitRead /\ [][NextRead]_vars

\* A program that reads, writes and closes, one call at a time.
NextWrite ==
    \/ ReadSteps
    \/ WriteSteps

SpecWrite == InitWrite /\ [][NextWrite]_vars

\* A program that connects, reads, writes, closes and reconnects.
NextStream ==
    \/ \E url \in Urls : AsyncHandshake(url)
    \/ HandshakeDone
    \/ ReadSteps
    \/ WriteSteps

SpecStream == InitStream /\ [][NextStream]_vars

\* A second stream set up as the first was (ws.state = StateActive,
\* ws.init(mock), the same bytes written to ws.src), to be read with
\* AsyncNextMessage; the program keeps the outcome of the first stream's
\* NextMessage to compare.
Twin ==
    /\ StreamIdle
    /\ reader = "NextMessage"
    /\ res.op = "NextMessage"
    /\ ws' = [state |-> StateActive, src |-> Bytes(script), pending |-> <<>>,
              frag |-> TypeNone]
    /\ mock' = <<>>
    /\ peer' = <<>>
    /\ wire' = script
    /\ ccb' = NoCallback
    /\ rcvd' = <<>>
    /\ replies' = <<>>
    /\ sent' = <<>>
    /\ reader' = "AsyncNextMessage"
    /\ UNCHANGED <<rd, hs, res, conns, script>>
    /\ UNCHANGED pollerVars

\* The program of the paired read tests: the bytes of the peer written to the
\* source, one NextMessage, then the same on a second stream with one
\* AsyncNextMessage.
NextTwin ==
    \/ Seed
    \/ peer = <<>> /\ res.op = "none" /\ NextMessage(FALSE)
    \/ Twin
    \/ ~res.async /\ NextMessage(TRUE)
    \/ ReadEnd
    \/ ReadControl
    \/ ControlCallback
    \/ Flush
    \/ ReadEOF
    \/ ReadData

InitTwin ==
    /\ MustIO
    /\ \E s \in Scripts : ActiveStream(s, "NextMessage")

SpecTwin == InitTwin /\ [][NextTwin]_vars

\* ================================================================ claims
\* Bits set in a slot mask (read = 1, write = 2).
PopCount(m) == (m % 2) + ((m \div 2) % 2)

RECURSIVE SumBits(_)
SumBits(S) ==
    IF S = {} THEN 0
    ELSE LET s == CHOOSE x \in S : TRUE
         IN PopCount(masks[s]) + SumBits(S \ {s})

\* Interest bits set across the slots other than the waker's.
ArmedBits == SumBits(Slots)

\* Handlers of the post queue that executePost has not yet finished running.
QueuedPosts == Len(posts) - postIdx

\* The poller thread is not inside a call that updates p.pending, and no other
\* thread is inside Post's critical section.
Quiescent ==
    /\ call[PollerThread].name \notin {"setRead", "SetWrite", "DelRead", "DelWrite",
                                       "PostStore"}
    /\ pc \notin {"read", "write"}
    /\ lck \notin Producers

\* C1: at every quiescent point of the poller thread, pending is the number
\* of interest bits set across the slots other than the waker's plus the
\* number of posted handlers not yet run, and it is not negative.
C1_PendingAccounting ==
    Quiescent => (pending = ArmedBits + QueuedPosts /\ pending >= 0)

NoDup(q) == \A a, b \in 1..Len(q) : a # b => q[a] # q[b]

\* C2 (as stated): when a Poll returns, every handler whose Post had returned
\* by then has been executed.
C2_NextPollRunsPosted ==
    [][(pc # "ret" /\ pc' = "ret")
         => \A h \in 1..(nextId - 1) : PostReturned(h) => h \in ExecutedSet']_vars

\* C2 (amended): a Poll that began after Post(H) had returned, and that
\* returns nil, has executed H; and no posted handler is ever executed twice.
C2_PollAfterPostRunsIt ==
    /\ NoDup(executed)
    /\ (pc = "ret" /\ pollErr = "nil") => owed \subseteq ExecutedSet

\* A Poll that began with a posted handler outstanding has returned nil.
C2_Witness ==
    /\ pc = "ret"
    /\ pollErr = "nil"
    /\ owed # {}
    /\ owed \subseteq ExecutedSet

\* C3: in the post example (producers post concurrently, the poller thread
\* runs RunPending), when RunPending is about to return nil every handler
\* whose Post has returned has run, the handlers run so far are posted ones,
\* each run once, and two handlers of one producer ran in the order that
\* producer posted them.
C3_RunPendingRunsAllPosted ==
    /\ NoDup(executed)
    /\ ExecutedSet \subseteq 1..(nextId - 1)
    /\ \A a, b \in 1..Len(executed) :
          (a < b /\ poster[executed[a]] = poster[executed[b]])
             => executed[a] < executed[b]
    /\ (pc = "rp_check" /\ pending <= 0)
          => \A h \in 1..(nextId - 1) : PostReturned(h) => h \in ExecutedSet

\* RunPending is about to return after the handlers of both producers, all
\* posted, have run.
C3_Witness ==
    /\ pc = "rp_check"
    /\ pending <= 0
    /\ Len(executed) = nextId - 1
    /\ \E a, b \in 1..Len(executed) : poster[executed[a]] # poster[executed[b]]
    /\ \A h \in 1..(nextId - 1) : PostReturned(h)

\* C4 (as stated): within one Poll, no posted handler is invoked before a
\* slot handler.
C4_PostedAfterSlotHandlers ==
    \A j, k \in 1..Len(invoked) :
        j < k => ~(invoked[j].slot = WakerSlot /\ invoked[k].slot # WakerSlot)

\* C4 (amended): within one Poll, handlers are invoked in the order of the
\* event list, and the posted handlers are invoked, in queue order, at the
\* waker's entry of that list: after the handlers of the entries before it and
\* before the handlers of the entries after it.
C4_PostedAtWakerEntry ==
    /\ \A j, k \in 1..Len(invoked) : j < k => invoked[j].at <= invoked[k].at
    /\ \A j \in 1..Len(invoked) :
          (invoked[j].slot = WakerSlot) = (events[invoked[j].at].slot = WakerSlot)
    /\ \A j, k \in 1..Len(invoked) :
          (j < k /\ invoked[j].slot = WakerSlot /\ invoked[k].slot = WakerSlot)
             => invoked[j].h < invoked[k].h
    /\ pc \in {"lock", "postloop", "posthandler"} => events[i].slot = WakerSlot

\* One Poll has invoked the handler of one slot, then a posted handler, then
\* the handler of another slot: the waker's event lay between theirs.
C4_Witness ==
    \E j, k, l \in 1..Len(invoked) :
        /\ j < k /\ k < l
        /\ invoked[j].slot \in Slots
        /\ invoked[k].slot = WakerSlot
        /\ invoked[l].slot \in Slots
        /\ invoked[j].slot # invoked[l].slot

\* C5: no increment or decrement of pending is lost: every store that ends
\* an increment leaves pending one above, and every store that ends a
\* decrement one below, the value pending had just before the store.
C5_NoLostUpdate ==
    [][/\ \A t \in Threads :
            (call[t].name = "PostStore" /\ call'[t] # call[t]) => pending' = pending + 1
       /\ (call[PollerThread].name \in {"setRead", "SetWrite"}
             /\ ~Armed(call[PollerThread].slot, call[PollerThread].ev)
             /\ call'[PollerThread] # call[PollerThread])
               => pending' = pending + 1
       /\ (call[PollerThread].name \in {"DelRead", "DelWrite"}
             /\ call'[PollerThread] # call[PollerThread])
               => pending' = pending - 1
       /\ (pc \in {"read", "write"} /\ pc' = "handler") => pending' = pending - 1
      ]_vars

\* C6: PollOne does not block: when the kqueue holds no slot registration,
\* the waker pipe is empty and the post queue is empty, the kernel wait of
\* PollOne's Poll can return without an event, with zero events.
C6_PollOneNonBlocking ==
    (/\ pc = "kevent"
     /\ mode = "PollOne"
     /\ fdOpen
     /\ posts = <<>>
     /\ wakerBytes = 0
     /\ {r \in kreg : r.slot # WakerSlot} = {})
       => [err |-> "nil", n |-> 0, evs |-> <<>>] \in Kevent(pollTimeout)

\* C7: Close is effective at most once: the waker and the kqueue fd are each
\* closed at most once, at most one call ever gets past the closed flag, no
\* close fails on an fd already closed, nothing is closed while the flag is
\* clear, and a call returns EOF only when the flag is set.
C7_CloseOnce ==
    /\ wakerCloses <= 1
    /\ fdCloses <= 1
    /\ Cardinality({t \in Threads : call[t].name \in {"CloseWaker", "CloseFd"}}) <= 1
    /\ closeErr \in {"nil", "EOF"}
    /\ closeErr = "EOF" => closed = 1
    /\ closed = 0 => (wakerOpen /\ fdOpen /\ wakerCloses = 0 /\ fdCloses = 0)
    /\ wakerOpen = (wakerCloses = 0)
    /\ fdOpen = (fdCloses = 0)

\* A second Close has returned EOF while the first, from another thread, has
\* set the flag and not yet closed the waker.
C7_Witness ==
    /\ closeErr = "EOF"
    /\ call["t1"].name = "CloseWaker"
    /\ wakerCloses = 0
    /\ fdCloses = 0

\* C8 (as stated): once Close has closed the poller, no handler is invoked.
C8_NoHandlerAfterClose ==
    [][~fdOpen => Len(invoked') <= Len(invoked)]_vars

\* C8 (amended): a Poll that begins after Close has closed the kqueue fd
\* returns the kernel's error for the closed fd (EBADF) without invoking a
\* handler; and whenever Poll returns an error on a closed poller, RunOne and
\* PollOne return EOF and Run ends with EOF.
C8_PollAfterCloseFails ==
    [][/\ (~fdOpen /\ pc \in {"idle", "ret"} /\ pc' \notin {"idle", "ret"})
            => (pc' = "kevent_closed" /\ invoked' = <<>>)
       /\ (pc = "kevent_closed" /\ pc' # pc)
            => (pc' = "ret" /\ pollErr' = "EBADF" /\ invoked' = <<>>)
       /\ (closed = 1 /\ pc = "ret" /\ pollErr # "nil" /\ pc' # "ret")
            => (pc' = "idle" /\ mode' = "none" /\ ioErr' = "EOF")
      ]_vars

\* A Poll of Run has returned EBADF from the closed kqueue fd, no handler
\* invoked.
C8_Witness ==
    /\ ~fdOpen
    /\ pc = "ret"
    /\ mode = "Run"
    /\ pollErr = "EBADF"
    /\ invoked = <<>>

\* C9: Poll changes no slot mask, post queue or pending on its way into the
\* kernel wait; when the wait ends, Poll returns Timeout only if its timeout
\* was non-negative, and then no handler has been invoked and the slot masks,
\* the post queue, pending and the kernel's registrations are what they were;
\* a return without a kernel error is a Timeout; and the dispatch loop is
\* entered only with at least one event.
C9_TimeoutFrame ==
    [][/\ (pc # "kevent" /\ pc' = "kevent")
         => (invoked' = <<>> /\ UNCHANGED <<masks, posts, postIdx, pending, executed>>)
       /\ (pc = "kevent" /\ pc' # "kevent")
         => /\ pollErr' = "ErrTimeout"
                 => /\ pollTimeout >= 0
                    /\ pc' = "ret"
                    /\ invoked' = <<>>
                    /\ UNCHANGED <<masks, posts, postIdx, pending, kreg, executed>>
            /\ (pc' = "ret" /\ pollErr' \notin {"EBADF", "EINTR"})
                 => pollErr' = "ErrTimeout"
            /\ pc' = "dispatch" => (events' # <<>> /\ pollErr' = "nil")
      ]_vars

\* A Poll has returned Timeout with the read interest of slot a armed and
\* registered with the kernel.
C9_Witness ==
    /\ pc = "ret"
    /\ pollErr = "ErrTimeout"
    /\ Armed("a", PollerReadEvent)
    /\ \E r \in kreg : r.slot = "a"
    /\ invoked = <<>>

\* C10: a SetRead or SetWrite call on a slot whose bit is already set returns
\* with the slot masks, pending and the change list as they were; a call on a
\* slot whose bit is clear sets that bit and no other, adds one to pending and
\* appends one EV_ADD|EV_ONESHOT change for the slot and filter.
C10_SetIdempotent ==
    [][LET c == call[PollerThread] IN
       (c.name \in {"setRead", "SetWrite"} /\ call'[PollerThread] # c)
         => /\ c.ev = (IF c.name = "setRead" THEN PollerReadEvent ELSE PollerWriteEvent)
            /\ IF Armed(c.slot, c.ev)
               THEN UNCHANGED <<masks, pending, changes>>
               ELSE /\ masks' = [masks EXCEPT ![c.slot] = masks[c.slot] + c.ev]
                    /\ pending' = pending + 1
                    /\ changes' = Append(changes, [flags |-> "ADD_ONESHOT",
                                                   filter |-> -c.ev, slot |-> c.slot])
      ]_vars

\* SetRead has been called on slot a a second time: its read bit is set, the
\* first call's change still in the change list.
C10_Witness ==
    /\ call[PollerThread].name = "setRead"
    /\ call[PollerThread].slot = "a"
    /\ Armed("a", PollerReadEvent)
    /\ pending >= 1
    /\ \E k \in 1..Len(changes) : changes[k].slot = "a" /\ changes[k].flags = "ADD_ONESHOT"

\* The knotes the kqueue holds once the change list has been handed to it.
Registered == ApplyChanges(kreg, changes)

\* C11: between polls, on an open poller, a slot's mask is zero exactly when
\* no kernel interest is registered for the slot (the changes still in the
\* change list counted as made).
C11_MaskMirrorsKernel ==
    (pc = "idle" /\ mode = "none" /\ call[PollerThread].name = "none" /\ closed = 0)
       => \A s \in Slots : (masks[s] = 0) = ~(\E r \in Registered : r.slot = s)

\* ----------------------------------------------------------- stream claims
\* The payloads of the frames q, one after the other.
RECURSIVE Payloads(_)
Payloads(q) == IF q = <<>> THEN <<>> ELSE Head(q).payload \o Payloads(Tail(q))

Corrupt(f) == IsControl(f) /\ (~f.fin \/ Len(f.payload) > 125)

C14_PingPong ==
    (ccb.ran /\ ccb.mt = TypePing)
       => /\ ccb.payload = script[Len(script)].payload
          /\ ccb.state = StateActive
          /\ Len(ccb.pending) = 1
          /\ ccb.pending[1].masked
          /\ ccb.pending[1].opcode = OpcodePong
          /\ Unmask(ccb.pending[1]).payload = ccb.payload
          /\ rd.name = "none"
                => /\ res.err = "EOF"
                   /\ res.state = StateTerminated
                   /\ ws.state = StateTerminated
                   /\ ws.pending = <<>>
                   /\ ReadFrom(mock).n = Len(mock)
                   /\ ReadFrom(mock).f.opcode = OpcodePong
                   /\ ReadFrom(mock).f.masked
                   /\ Unmask(ReadFrom(mock).f).payload = ccb.payload

\* NextMessage has returned EOF after a Ping whose Pong is on the underlying
\* stream.
C14_Witness ==
    /\ ccb.ran /\ ccb.mt = TypePing
    /\ rd.name = "none"
    /\ res.op = "NextMessage" /\ ~res.async /\ res.err = "EOF"
    /\ ws.state = StateTerminated
    /\ mock # <<>>

\* q holds one frame, a masked Close that unmasks to the code and reason of
\* the close payload b.
OneCloseReply(q, b) ==
    /\ Len(q) = 1
    /\ q[1].masked
    /\ q[1].fin
    /\ q[1].opcode = OpcodeClose
    /\ DecodeCloseFramePayload(Unmask(q[1]).payload) = DecodeCloseFramePayload(b)

\* C15: when an Active stream receives a valid Close with code c and reason r,
\* through NextFrame or NextMessage, the state becomes ClosedByPeer and one
\* reply is enqueued, a masked Close that unmasks to (c, r); the control
\* callback, invoked with (Close, payload), finds that reply pending and the
\* state ClosedByPeer.
C15_PeerClose ==
    [][/\ (/\ rd.step = "read"
           /\ ws.state = StateActive
           /\ wire # <<>>
           /\ wire' = Tail(wire)
           /\ Head(wire).opcode = OpcodeClose
           /\ ~Corrupt(Head(wire)))
          => /\ ws'.state = StateClosedByPeer
             /\ ws.pending = <<>>
             /\ OneCloseReply(ws'.pending, Head(wire).payload)
       /\ (ccb' # ccb /\ ccb'.mt = TypeClose)
          => /\ ccb'.payload = script[Len(script)].payload
             /\ ccb'.state = StateClosedByPeer
             /\ OneCloseReply(ccb'.pending, ccb'.payload)
    ]_vars

\* NextFrame has returned the peer's Close(1000, "bye") and the reply is
\* pending.
C15_Witness ==
    /\ res.op = "NextFrame" /\ res.err = "nil"
    /\ res.f.opcode = OpcodeClose
    /\ DecodeCloseFramePayload(res.f.payload) = [code |-> CloseNormal, reason |-> Bye]
    /\ ws.state = StateClosedByPeer
    /\ Len(ws.pending) = 1

\* The bytes b are one masked FIN Close frame that unmasks to code and reason.
OneCloseFrame(b, code, reason) ==
    /\ ReadFrom(b).n = Len(b)
    /\ ReadFrom(b).f.fin
    /\ ReadFrom(b).f.masked
    /\ ReadFrom(b).f.opcode = OpcodeClose
    /\ DecodeCloseFramePayload(Unmask(ReadFrom(b).f).payload) = [code |-> code, reason |-> reason]

\* C16: Close(code, reason) or AsyncClose on an Active stream writes one masked
\* FIN Close frame that unmasks to (code, reason) to the underlying stream and
\* leaves the state ClosedByUs; when NextFrame then reads the peer's Close, the
\* frame is delivered without error and the state becomes CloseAcked.
C16_CloseHandshakeWeStart ==
    [][/\ \A a \in CloseArgs :
            (/\ ws.state = StateActive
             /\ res' # res
             /\ res'.op = "Close"
             /\ res'.f.payload = EncodeCloseFramePayload(a[1], a[2]))
            => /\ res'.err = "nil"
               /\ ws'.state = StateClosedByUs
               /\ Len(mock') > Len(mock)
               /\ SubSeq(mock', 1, Len(mock)) = mock
               /\ OneCloseFrame(SubSeq(mock', Len(mock) + 1, Len(mock')), a[1], a[2])
       /\ (/\ rd.name = "NextFrame"
           /\ rd.step = "read"
           /\ ws.state = StateClosedByUs
           /\ wire # <<>>
           /\ wire' = Tail(wire)
           /\ Head(wire).opcode = OpcodeClose
           /\ ~Corrupt(Head(wire)))
          => /\ res'.err = "nil"
             /\ res'.f = Head(wire)
             /\ ws'.state = StateCloseAcked
    ]_vars

\* The program closed with (1000, "bye") and NextFrame has returned the
\* peer's Close.
C16_Witness ==
    /\ sent = <<NewFrame(TRUE, OpcodeClose, EncodeCloseFramePayload(CloseNormal, Bye))>>
    /\ res.op = "NextFrame" /\ res.err = "nil"
    /\ res.f.opcode = OpcodeClose
    /\ ws.state = StateCloseAcked

\* A read completes in this step.
ReadCompletes == rd.name # "none" /\ rd'.name = "none"

\* C17 as stated: once the state is Terminated no operation, handshake, read,
\* write or close, moves it to another state, and every read that completes
\* after that returns EOF.
C17_TerminatedIsTerminal ==
    [][ws.state = StateTerminated
          => /\ ws'.state = StateTerminated
             /\ ReadCompletes => res'.err = "EOF"
    ]_vars

\* C17 amended: once the state is Terminated no read, write or close moves it
\* to another state and every read that completes returns EOF, until a new
\* handshake ends, which alone can make the stream Active again.
C17_TerminatedUntilHandshake ==
    [][ws.state = StateTerminated
          => /\ ws'.state = StateTerminated \/ (hs # "none" /\ hs' = "none")
             /\ ReadCompletes => res'.err = "EOF"
    ]_vars

\* Close, called on a Terminated stream, has returned an error and the stream
\* is still Terminated.
C17_Witness ==
    /\ ws.state = StateTerminated
    /\ res.op = "Close" /\ res.err # "nil"
    /\ conns = 1
    /\ sent = <<>>

\* C18: a new stream is in Handshake; when the callback of AsyncHandshake runs
\* the state is Active if the error is nil and Terminated if it is not; a url
\* without a ws scheme ends in ErrInvalidAddress and Terminated, a connection
\* that fails in a non-nil error and Terminated.
C18_Handshake ==
    [][/\ conns = 0 => ws.state = StateHandshake
       /\ (hs # "none" /\ hs' = "none")
          => /\ res'.op = "AsyncHandshake"
             /\ ws'.state = res'.state
             /\ res'.err = "nil" => res'.state = StateActive
             /\ res'.err # "nil" => res'.state = StateTerminated
             /\ hs = "localhost:8081" => res'.err = "ErrInvalidAddress"
             /\ res'.err \in {"nil", "ErrInvalidAddress", "ErrConnect"}
    ]_vars

\* The callback of AsyncHandshake("localhost:8081") has run with
\* ErrInvalidAddress on a new stream.
C18_Witness ==
    /\ res.op = "AsyncHandshake"
    /\ res.err = "ErrInvalidAddress"
    /\ ws.state = StateTerminated
    /\ conns = 1

\* The frames the bytes b parse into, as a test reads them back from mock.b.
RECURSIVE Frames(_)
Frames(b) ==
    IF b = <<>> THEN <<>>
    ELSE IF ReadFrom(b).n = 0 THEN <<NoFrame>>
    ELSE <<ReadFrom(b).f>> \o Frames(SubSeq(b, ReadFrom(b).n + 1, Len(b)))

\* C19: every frame the client puts on the underlying stream, by Write,
\* WriteFrame, Close or as a reply to a Ping or a Close, has the mask bit set
\* and, parsed and unmasked, has the opcode, FIN and payload it was given; a
\* Write or WriteFrame that succeeds leaves the stream Active.
C19_MaskedRoundTrip ==
    /\ Len(Frames(mock)) = Len(sent)
    /\ \A k \in 1..Len(sent) :
          /\ Frames(mock)[k].masked
          /\ Unmask(Frames(mock)[k]).opcode = sent[k].opcode
          /\ Unmask(Frames(mock)[k]).fin = sent[k].fin
          /\ Unmask(Frames(mock)[k]).payload = sent[k].payload
    /\ (res.op \in {"Write", "WriteFrame"} /\ res.err = "nil") => res.state = StateActive

\* Write of five bytes has succeeded and, after it, the reply to a control
\* frame of the peer has been flushed.
C19_Witness ==
    /\ Len(sent) = 2
    /\ sent[1] = NewFrame(TRUE, OpcodeText, <<1, 2, 3, 4, 5>>)
    /\ sent[2].opcode \in {OpcodePong, OpcodeClose}
    /\ Frames(mock)[1].payload # sent[1].payload

\* C20: when the stream is in ClosedByPeer and its Close reply has been
\* flushed to the underlying stream, the pending reply queue empty again, the
\* state becomes Terminated: the read that flushed the reply ends with the
\* stream Terminated.
C20_ReplyFlushedTerminates ==
    [][(/\ ReadCompletes
        /\ rd.step = "eof"
        /\ ws.state = StateClosedByPeer
        /\ ws.pending = <<>>
        /\ sent # <<>>
        /\ sent[Len(sent)].opcode = OpcodeClose)
       => ws'.state = StateTerminated
    ]_vars

\* ----------------------------------------------------------- poller claims
\* The interests Poll's dispatch may act on.
Kinds == {PollerReadEvent, PollerWriteEvent}

\* C21: the dispatch loop invokes a slot's read (write) handler only for an
\* event of that kind reported by the kernel and with that bit set in the
\* slot's mask; on entry to the handler that bit, and no other, has been
\* cleared and pending is one less; an event whose bit is clear is passed over
\* without an invocation; a bit goes from clear to set only in a SetRead or
\* SetWrite call for that slot and kind; and one Poll invokes no handler of a
\* slot and kind twice.
C21_DispatchArmedAndReady ==
    [][/\ (pc \in {"read", "write"} /\ pc' = "handler")
            => LET s == events[i].slot
                   kind == IF pc = "read" THEN PollerReadEvent ELSE PollerWriteEvent
               IN /\ -events[i].filter = kind
                  /\ Armed(s, kind)
                  /\ masks' = [masks EXCEPT ![s] = masks[s] - kind]
                  /\ pending' = pending - 1
                  /\ invoked' = Append(invoked, [slot |-> s, ev |-> kind, h |-> 0, at |-> i])
       /\ (/\ pc = "dispatch"
           /\ i <= Len(events)
           /\ events[i].slot # WakerSlot
           /\ ~Armed(events[i].slot, -events[i].filter))
            => (i' = i + 1 /\ pc' = "dispatch" /\ UNCHANGED <<invoked, masks, pending>>)
       /\ Len(invoked') > Len(invoked)
            => (pc' \in {"handler", "posthandler"} /\ Len(invoked') = Len(invoked) + 1)
       /\ \A s \in Slots : \A k \in Kinds :
            (~Armed(s, k) /\ BitAnd(masks'[s], k) = k)
               => /\ call[PollerThread].name \in {"setRead", "SetWrite"}
                  /\ call[PollerThread].slot = s
                  /\ call[PollerThread].ev = k
       /\ \A a, b \in 1..Len(invoked') :
            (a # b /\ invoked'[a].slot # WakerSlot)
               => (invoked'[a].slot # invoked'[b].slot \/ invoked'[a].ev # invoked'[b].ev)
      ]_vars

\* One Poll was handed the read and the write event of slot a: the read
\* handler ran, un-armed the write interest and re-armed its own, and the
\* loop has passed over the write event without an invocation.
C21_Witness ==
    /\ pc = "dispatch"
    /\ Len(events) = 2
    /\ events[1] = [filter |-> -PollerReadEvent, slot |-> "a"]
    /\ events[2] = [filter |-> -PollerWriteEvent, slot |-> "a"]
    /\ i = 3
    /\ invoked = <<[slot |-> "a", ev |-> PollerReadEvent, h |-> 0, at |-> 1]>>
    /\ Armed("a", PollerReadEvent)
    /\ ~Armed("a", PollerWriteEvent)
    /\ pending = 1

\* C22: a kernel wait interrupted by EINTR is never surfaced as an error:
\* Poll does not return EINTR, and no IO call (RunOne, PollOne, Run,
\* RunPending) ends with it.
C22_EintrNotSurfaced ==
    /\ pollErr # "EINTR"
    /\ ioErr # "EINTR"

\* RunPending has returned nil with nothing left to run.
PendingDone ==
    /\ mode = "none"
    /\ pc = "idle"
    /\ ioErr = "nil"
    /\ pending = 0
    /\ posts = <<>>
    /\ Len(executed) = nextId - 1

\* C23: RunPending polls again whenever its test finds pending > 0, goes back
\* to that test after a Poll that returned nil or Timeout, and returns (nil)
\* from the test only with pending <= 0; and a RunPending that is at its test
\* with no slot interest armed, every post having returned, goes on to return
\* nil with every posted handler executed, the post queue empty and pending 0.
C23_RunPendingDrains ==
    /\ [][/\ (pc = "rp_check" /\ pending > 0)
               => (pc' = "kevent" /\ mode' = "RunPending" /\ pollTimeout' = timeoutMs)
          /\ (pc = "rp_check" /\ pc' = "idle")
               => (pending <= 0 /\ ioErr' = "nil" /\ mode' = "none")
          /\ (pc = "ret" /\ mode = "RunPending" /\ pollErr \in {"nil", "ErrTimeout"})
               => (pc' = "rp_check" /\ mode' = "RunPending" /\ ioErr' = ioErr)
          /\ (mode = "RunPending" /\ mode' = "none" /\ ioErr' = "nil")
               => (pc = "rp_check" /\ pending <= 0)
         ]_vars
    /\ (mode = "RunPending" /\ pc = "rp_check" /\ ArmedBits = 0) ~> PendingDone

\* The one Poll of a RunPending called with two posted handlers queued and no
\* slot interest armed has run both and is about to return nil, pending 0.
C23_Witness ==
    /\ mode = "RunPending"
    /\ pc = "ret"
    /\ pollErr = "nil"
    /\ Len(invoked) = 2
    /\ invoked[1].h = 1
    /\ invoked[2].h = 2
    /\ executed = <<1, 2>>
    /\ pending = 0
    /\ posts = <<>>
    /\ wakerBytes = 0
    /\ ArmedBits = 0

\* Entries of the event list of the Poll in progress that are the waker's.
WakerEvents == {k \in 1..Len(events) : events[k].slot = WakerSlot}

\* C24: however many Posts have written to the waker, a Poll is handed at most
\* one waker event, and only while the pipe holds a byte; when executePost
\* starts, the pipe is left empty; when it ends, every handler whose Post has
\* returned has been executed, each once, and the post queue is empty; and
\* the pipe gains a byte only by the write of a Post.
C24_WakerCoalesces ==
    [][/\ Cardinality(WakerEvents') <= 1
       /\ (pc = "kevent" /\ pc' = "dispatch" /\ WakerEvents' # {}) => wakerBytes >= 1
       /\ (pc = "dispatch" /\ pc' = "lock")
            => (events[i].slot = WakerSlot /\ wakerBytes' = 0)
       /\ (pc = "postloop" /\ pc' = "dispatch")
            => /\ posts' = <<>>
               /\ NoDup(executed)
               /\ \A h \in 1..(nextId - 1) : PostReturned(h) => h \in ExecutedSet
               /\ \A k \in 1..Len(posts) : posts[k] \in ExecutedSet
       /\ wakerBytes' > wakerBytes
            => /\ wakerBytes' = wakerBytes + 1
               /\ \E t \in Threads : call[t].name = "PostWake" /\ call'[t] = NoCall
      ]_vars

\* Two Posts, one of each producer, had returned when the Poll began (two
\* bytes in the pipe); the Poll was handed the one waker event, its one
\* executePost ran both handlers, and it returns with the pipe empty.
C24_Witness ==
    /\ pc = "ret"
    /\ pollErr = "nil"
    /\ owed = {1, 2}
    /\ poster[1] # poster[2]
    /\ events = <<[filter |-> -PollerReadEvent, slot |-> WakerSlot]>>
    /\ Len(invoked) = 2
    /\ executed = <<1, 2>>
    /\ posts = <<>>
    /\ wakerBytes = 0

\* ------------------------------------------------ stream claims, continued
\* The read completing in this step has consumed a control frame: one taken
\* from the source in this very step, or the one whose replies the read has
\* just flushed.
CompletesOnControl ==
    /\ ReadCompletes
    /\ \/ rd.step = "eof" /\ IsControl(rd.f)
       \/ rd.step = "read" /\ wire # <<>> /\ wire' = Tail(wire) /\ IsControl(Head(wire))

\* C25 as stated: whenever a read (NextFrame, NextMessage or an async variant)
\* completes on a control frame, the pending reply queue is empty.
C25_RepliesFlushedAtCompletion ==
    [][CompletesOnControl => ws'.pending = <<>>]_vars

\* C25 (amended): a read through NextMessage or AsyncNextMessage that
\* completes on a valid control frame has flushed the replies, the queue
\* empty and the replies' bytes on the underlying stream; a read completes
\* with a reply still queued only when it is a NextFrame or AsyncNextFrame
\* handing over a control frame, or a read failing with a protocol error, and
\* then with that one reply; and a reply left queued is flushed, oldest
\* first, when the next read is called.
C25_RepliesFlushedByNextRead ==
    [][/\ (CompletesOnControl /\ rd.name = "NextMessage"
             /\ res'.err \notin {"ErrInvalidControlFrame", "ErrUnexpectedOpcode"})
            => (ws'.pending = <<>> /\ replies' = <<>>)
       /\ (rd.step = "flush" /\ rd'.step # "flush")
            => (ws'.pending = <<>> /\ mock' = mock \o Bytes(ws.pending))
       /\ (ReadCompletes /\ ws'.pending # <<>>)
            => /\ ws.pending = <<>>
               /\ Len(ws'.pending) = 1
               /\ \/ res'.err \in {"ErrInvalidControlFrame", "ErrUnexpectedOpcode"}
                  \/ /\ res'.op = "NextFrame"
                     /\ res'.err = "nil"
                     /\ res'.f.opcode \in {OpcodePing, OpcodeClose}
       /\ (rd.name = "none" /\ rd'.name # "none")
            => (ws'.pending = <<>> /\ mock' = mock \o Bytes(ws.pending))
      ]_vars

\* NextFrame handed over the peer's Close with the reply still queued, and the
\* next NextFrame, just called, has flushed that reply to the underlying
\* stream.
C25_Witness ==
    /\ rd.name = "NextFrame"
    /\ rd.step = "read"
    /\ res.op = "NextFrame"
    /\ res.f.opcode = OpcodeClose
    /\ Len(res.pending) = 1
    /\ ws.pending = <<>>
    /\ mock = Bytes(res.pending)

\* C26: a NextMessage or AsyncNextMessage read that takes a data frame from
\* the source fails with UnexpectedOpcode, the frame not counted into the
\* message in progress, when the frame is a
\* Continuation and no message is in progress or a Text or Binary frame and a
\* message is in progress, and otherwise does not so fail and counts the frame
\* into the message; and the stored fragmentation opcode is set exactly while
\* frames without FIN have been received since the last completed message,
\* and is then the opcode of the first of them.
C26_FragmentationOrder ==
    [][/\ (/\ rd.step = "read"
           /\ rd.name = "NextMessage"
           /\ wire # <<>>
           /\ wire' = Tail(wire)
           /\ ~IsControl(Head(wire)))
            => LET f == Head(wire)
               IN IF \/ f.opcode = OpcodeContinuation /\ rcvd = <<>>
                     \/ f.opcode \in {OpcodeText, OpcodeBinary} /\ rcvd # <<>>
                  THEN /\ ReadCompletes
                       /\ res'.err = "ErrUnexpectedOpcode"
                       /\ rcvd' = rcvd
                  ELSE /\ ~(ReadCompletes /\ res'.err = "ErrUnexpectedOpcode")
                       /\ rcvd' = (IF f.fin THEN <<>> ELSE Append(rcvd, f))
                       /\ f.fin => (ReadCompletes /\ res'.err = "nil")
       /\ (ws'.frag # TypeNone) = (rcvd' # <<>>)
       /\ rcvd' # <<>>
            => /\ ws'.frag = rcvd'[1].opcode
               /\ \A k \in 1..Len(rcvd') : ~rcvd'[k].fin
      ]_vars

\* AsyncNextMessage has failed with UnexpectedOpcode on a Text frame that
\* arrived while a Binary message, its first fragment received, was in
\* progress.
C26_Witness ==
    /\ res.op = "NextMessage"
    /\ res.async
    /\ res.err = "ErrUnexpectedOpcode"
    /\ Len(script) = 2
    /\ script[1] = NewFrame(FALSE, OpcodeBinary, PayloadAt(1))
    /\ script[2].opcode = OpcodeText
    /\ rcvd = <<script[1]>>
    /\ ws.frag = TypeBinary
    /\ res.b = PayloadAt(1)


\* ------------------------------------------------ poller claims, continued
\* C27: Post is safe to call from inside a posted handler that the poller
\* thread is running: the Poll whose post-queue drain runs a handler that calls
\* Post still returns, so a Post called by the poller thread never waits for
\* the poller mutex while executePost, on that same thread, holds it.
C27_PostFromHandlerReturns ==
    call[PollerThread].name = "PostLock" => lck # PollerThread


\* The handlers of the post queue that the drain in progress has not called
\* yet: all of them when no drain is in progress.
Unrun ==
    LET from == IF pc = "posthandler" THEN postIdx + 2
                ELSE IF pc = "postloop" THEN postIdx + 1 ELSE 1
    IN {posts[k] : k \in from..Len(posts)}

\* C28: a Post whose waker write fails returns the error with its handler
\* still in the post queue and pending as the increment left it, nothing being
\* rolled back; a handler that was appended is in the queue until a drain calls
\* it, no handler is called twice, and a post-queue drain that ends has called
\* every handler of the queue, the one of the failed Post included.
C28_FailedPostStillQueued ==
    /\ [][\A t \in Threads :
             (call[t].name = "PostWake" /\ call'[t].name = "none" /\ postErr' # "nil")
                => /\ posts' = posts
                   /\ pending' = pending
                   /\ call[t].h \in Unrun \cup ExecutedSet]_vars
    /\ [][(pc = "postloop" /\ pc' = "dispatch")
             => /\ {posts[k] : k \in 1..Len(posts)} \subseteq ExecutedSet
                /\ posts' = <<>>
                /\ executed' = executed]_vars
    /\ [](/\ NoDup(executed)
          /\ NoDup(posts)
          /\ \A h \in 1..(nextId - 1) : (h \in Unrun) # (h \in ExecutedSet))

\* A Post by the poller thread has returned EBADF, the waker having been
\* closed before its write, and the drain of the poll in progress has called
\* its handler all the same.
C28_Witness ==
    /\ postErr = "EBADF"
    /\ call[PollerThread].name = "none"
    /\ nextId > 1
    /\ executed # <<>>
    /\ executed[Len(executed)] = nextId - 1
    /\ pc = "dispatch"
    /\ posts = <<>>


\* The kernel's registration of the waker's read end, as NewPoller asks for it.
WakerKnote == [slot |-> WakerSlot, filter |-> -PollerReadEvent, oneshot |-> FALSE]

\* C29: the waker's read registration is persistent and not accounted in
\* pending: with no post made and no slot call in progress pending is the
\* number of armed slot interests (0 after NewPoller); the waker slot's read
\* bit is set in every state; the kernel keeps the waker's registration, which
\* is not one-shot, once it has it; and the steps that dispatch a waker event
\* (the branch in Poll, executePost taking the mutex, executePost going to the
\* next handler or ending the loop) leave pending and every slot mask as they
\* are, so a waker event with an empty post queue changes neither.
C29_WakerPersistentUncounted ==
    /\ []((nextId = 1 /\ call[PollerThread].name = "none") => pending = ArmedBits)
    /\ [](masks[WakerSlot] = PollerReadEvent)
    /\ [](\A r \in kreg : r.slot = WakerSlot => r = WakerKnote)
    /\ [][(WakerKnote \in kreg) => (WakerKnote \in kreg')]_vars
    /\ [][(\/ pc = "dispatch" /\ pc' = "lock"
           \/ pc = "lock" /\ pc' = "postloop"
           \/ pc = "postloop" /\ pc' \in {"dispatch", "posthandler"})
             => (pending' = pending /\ masks' = masks)]_vars

\* executePost runs on a waker event with the post queue empty, an earlier
\* drain having run a handler: the waker's registration has outlived that
\* drain.
C29_Witness ==
    /\ pc = "postloop"
    /\ posts = <<>>
    /\ executed # <<>>
    /\ WakerKnote \in kreg
    /\ masks[WakerSlot] = PollerReadEvent
    /\ Armed("a", PollerReadEvent)


\* ------------------------------------------------ stream claims, concluded
\* The frames of a reply queue as they were before masking: the key of a
\* reply is drawn anew for every frame.
Plain(q) == [k \in 1..Len(q) |-> [Unmask(q[k]) EXCEPT !.key = <<>>]]

\* C30: NextMessage and AsyncNextMessage are equivalent: on two streams set
\* up alike, Active and with the same bytes in the source, the completion of
\* AsyncNextMessage delivers the error, the byte count and the message type
\* that NextMessage returned, and finds the pending reply queue (the same
\* frames, whatever their masking keys) and the stream state that NextMessage
\* left.
C30_SyncAsyncEquivalent ==
    [][(res.op = "NextMessage" /\ ~res.async /\ res'.async)
          => /\ res'.err = res.err
             /\ res'.n = res.n
             /\ res'.mt = res.mt
             /\ Plain(res'.pending) = Plain(res.pending)
             /\ res'.state = res.state]_vars
====
